---- MODULE Spec2Model ----
(***************************************************************************)
(* Verification model of the Bitcoin swap core:                            *)
(*   - src/src/swaps/bitcoin.rs   BtcSwapScript, BtcSwapTx                 *)
(*   - src/src/network/esplora.rs get_with_retry, fetch_utxos_core,         *)
(*                                EsploraConfig                            *)
(*   - src/src/network/electrum.rs fetch_utxos_core, ElectrumConfig        *)
(*   - src/src/util/secrets.rs    Preimage                                 *)
(* Cryptographic values are symbolic: a hash, an aggregated key or a       *)
(* signature is the record of the values it was computed from.             *)
(***************************************************************************)
EXTENDS Integers, Sequences, FiniteSets, TLC

\* ------------------------------------------------------------------------
\* Bounds of the model
\* ------------------------------------------------------------------------

\* longest transaction list handed to fetch_utxos_core
MaxTxs == 3

VARIABLES
    \* BtcSwapScript::fetch_utxos_core: arguments, position and result
    txs, history, spk, utxo_pc, utxo_pairs,
    \* get_with_retry: the loop counter, the GET requests issued, the
    \* statuses received, the sleeps taken (milliseconds) and the outcome
    attempt, requests, responses, sleeps, retry_pc, retry_result,
    \* BtcSwapTx: the swap script and the transaction descriptor, the call in
    \* progress and its position, the transaction being signed, the input
    \* index of the loop, the locals of one MuSig2 session, the log of the
    \* cryptographic steps, the count of nonce pairs generated, the requests
    \* sent to the service and the value returned
    swap_script, swap_tx, call, sign_pc, cur_tx, input_index, loc,
    events, nonce_ctr, sent, result,
    \* *_from_swap_resp: the response of the service, the position and the
    \* value returned
    swap_resp, parse_pc, parsed,
    \* BtcSwapTx::new_claim / new_refund: the script, what the Electrum server
    \* and the service would answer, the call, the position, the discovery
    \* calls made (fetch_utxos: "electrum", fetch_lockup_utxo_boltz:
    \* "service") and the value returned
    new_script, electrum, service, new_call, new_pc, contacted, new_result,
    \* Preimage: the argument of the constructor, the position, the value
    \* returned and the preimage a round trip started from
    pre_arg, pre_pc, pre_result, pre_orig,
    \* the UTXO selectors of the chain clients: the transactions as Electrum
    \* and as Esplora deliver them, the script and its address, and what
    \* BtcSwapScript::fetch_utxos_core, ElectrumBitcoinClient::fetch_utxos_core
    \* and EsploraBitcoinClient::fetch_utxos_core returned
    sel_txs, sel_history, sel_spk, sel_esplora_txs, sel_address,
    sel_script_pairs, sel_electrum_pairs, sel_esplora_result,
    \* ElectrumConfig / EsploraConfig: the client, the arguments of default,
    \* the constructor called, the position, the value returned and the
    \* answer of network()
    cfg_client, cfg_chain, cfg_url, cfg_call, cfg_pc, cfg_result, cfg_network

utxoVars == <<txs, history, spk, utxo_pc, utxo_pairs>>

retryVars == <<attempt, requests, responses, sleeps, retry_pc, retry_result>>

signVars == <<swap_script, swap_tx, call, sign_pc, cur_tx, input_index, loc,
              events, nonce_ctr, sent, result>>

parseVars == <<swap_resp, parse_pc, parsed>>

newVars == <<new_script, electrum, service, new_call, new_pc, contacted, new_result>>

preVars == <<pre_arg, pre_pc, pre_result, pre_orig>>

selVars == <<sel_txs, sel_history, sel_spk, sel_esplora_txs, sel_address,
             sel_script_pairs, sel_electrum_pairs, sel_esplora_result>>

cfgVars == <<cfg_client, cfg_chain, cfg_url, cfg_call, cfg_pc, cfg_result, cfg_network>>

vars == <<utxoVars, retryVars, signVars, parseVars, newVars, preVars, selVars, cfgVars>>

\* what an action of one part leaves alone in the other parts
utxoRest == <<retryVars, signVars, parseVars, newVars, preVars, selVars, cfgVars>>
retryRest == <<utxoVars, signVars, parseVars, newVars, preVars, selVars, cfgVars>>
signRest == <<utxoVars, retryVars, parseVars, newVars, preVars, selVars, cfgVars>>
parseRest == <<utxoVars, retryVars, signVars, newVars, preVars, selVars, cfgVars>>
newRest == <<utxoVars, retryVars, signVars, parseVars, preVars, selVars, cfgVars>>
preRest == <<utxoVars, retryVars, signVars, parseVars, newVars, selVars, cfgVars>>
selRest == <<utxoVars, retryVars, signVars, parseVars, newVars, preVars, cfgVars>>
cfgRest == <<utxoVars, retryVars, signVars, parseVars, newVars, preVars, selVars>>

\* ------------------------------------------------------------------------
\* Generic helpers
\* ------------------------------------------------------------------------

\* all sequences over S of length 0..n
SeqsUpTo(S, n) == UNION {[1..k -> S] : k \in 0..n}

Range(f) == {f[i] : i \in DOMAIN f}

\* ========================================================================
\* UTXO selector: BtcSwapScript::fetch_utxos_core
\* ========================================================================

OurScript == "aaaa"
OtherScript == "bbbb"
Scripts == {OurScript, OtherScript}

\* OutPoint::new(txid, vout); vout counts from 0 as in the source
OutPoint(txid, vout) == [txid |-> txid, vout |-> vout]

\* TxIn::default(): the null outpoint of an input that spends nothing we track
NullOutPoint == [txid |-> "null", vout |-> -1]

TxOut(value, script) == [value |-> value, script_pubkey |-> script]

\* The transactions the chain client can hand over.  `id` stands for the
\* double-SHA256 of the serialized transaction, so equal ids mean equal
\* transactions.
TxPool ==
    { [id |-> "t1", input |-> <<NullOutPoint>>,
       output |-> <<TxOut(1000, OurScript), TxOut(700, OtherScript), TxOut(2000, OurScript)>>],
      [id |-> "t2", input |-> <<OutPoint("t1", 0)>>,
       output |-> <<TxOut(900, OtherScript)>>],
      [id |-> "t3", input |-> <<OutPoint("t1", 2), OutPoint("t1", 1)>>,
       output |-> <<TxOut(2500, OurScript)>>],
      [id |-> "t4", input |-> <<OutPoint("t3", 0)>>,
       output |-> <<TxOut(2400, OtherScript), TxOut(50, OurScript)>>] }

TxIds == {t.id : t \in TxPool}

\* Transaction::compute_txid
compute_txid(tx) == tx.id

\* heights an Electrum history entry carries: 0 = mempool, > 0 = confirmed
Heights == {0, 100}

\* GetHistoryRes { tx_hash, height }
GetHistoryRes(h, height) == [tx_hash |-> h, height |-> height]

\* the history lists the check draws: one entry per listed transaction, in
\* the order t1..t4, each transaction listed or not
TxOrder == <<"t1", "t2", "t3", "t4">>

RECURSIVE HistoryFrom(_, _, _)
HistoryFrom(k, listed, height) ==
    IF k > Len(TxOrder) THEN <<>>
    ELSE (IF TxOrder[k] \in listed
          THEN <<GetHistoryRes(TxOrder[k], height[TxOrder[k]])>>
          ELSE <<>>)
         \o HistoryFrom(k + 1, listed, height)

Histories ==
    {HistoryFrom(1, listed, height) : listed \in SUBSET TxIds, height \in [TxIds -> Heights]}

\* history.iter().map(|h| (h.tx_hash, h.height > 0)).collect::<HashMap>():
\* a later entry for the same hash replaces an earlier one
RECURSIVE tx_is_confirmed_map(_)
tx_is_confirmed_map(hist) ==
    IF hist = <<>> THEN <<>>
    ELSE LET n == Len(hist)
             before == tx_is_confirmed_map(SubSeq(hist, 1, n - 1))
             last == hist[n]
         IN [h \in DOMAIN before \cup {last.tx_hash} |->
                IF h = last.tx_hash THEN last.height > 0 ELSE before[h]]

\* spending_tx.input.iter().any(|input| previous_output == (txid, vout))
spends_our_output(spending_tx, txid, vout) ==
    \E k \in 1..Len(spending_tx.input) :
        /\ spending_tx.input[k].txid = txid
        /\ spending_tx.input[k].vout = vout

\* a selector that takes every spender for a confirmed one
IsConfirmedIgnoringHeight(map, hash) == TRUE

\* tx_is_confirmed_map.get(&hash).copied().unwrap_or(false)
is_confirmed(map, hash) ==
    IF hash \in DOMAIN map THEN map[hash] ELSE FALSE

\* the closure of the second .filter(): the output is kept unless some
\* transaction of txs spends it and is confirmed
output_is_unspent(T, map, tx, vout) ==
    ~ \E j \in 1..Len(T) :
        /\ spends_our_output(T[j], compute_txid(tx), vout)
        /\ is_confirmed(map, compute_txid(T[j]))

\* tx.output.iter().enumerate().filter(..).filter(..).map(..) for one tx;
\* k is the 1-based position, vout = k - 1
RECURSIVE tx_utxos(_, _, _, _, _)
tx_utxos(T, map, s, tx, k) ==
    IF k > Len(tx.output) THEN <<>>
    ELSE (IF /\ tx.output[k].script_pubkey = s
             /\ output_is_unspent(T, map, tx, k - 1)
          THEN << <<OutPoint(compute_txid(tx), k - 1), tx.output[k]>> >>
          ELSE <<>>)
         \o tx_utxos(T, map, s, tx, k + 1)

\* txs.iter().flat_map(|tx| ...).collect()
RECURSIVE flat_map_from(_, _, _, _)
flat_map_from(T, map, s, i) ==
    IF i > Len(T) THEN <<>>
    ELSE tx_utxos(T, map, s, T[i], 1) \o flat_map_from(T, map, s, i + 1)

fetch_utxos_core(T, hist, s) ==
    flat_map_from(T, tx_is_confirmed_map(hist), s, 1)

\* the state of the parts a specification does not exercise
UtxoIdle ==
    /\ txs = <<>>
    /\ history = <<>>
    /\ spk = OurScript
    /\ utxo_pc = "idle"
    /\ utxo_pairs = <<>>

UtxoInit ==
    /\ txs \in SeqsUpTo(TxPool, MaxTxs)
    /\ history \in Histories
    /\ spk \in Scripts
    /\ utxo_pc = "call"
    /\ utxo_pairs = <<>>

\* one call of fetch_utxos_core on the drawn arguments
FetchUtxosCore ==
    /\ utxo_pc = "call"
    /\ utxo_pairs' = fetch_utxos_core(txs, history, spk)
    /\ utxo_pc' = "returned"
    /\ UNCHANGED <<txs, history, spk>>
    /\ UNCHANGED utxoRest

UtxoNext == FetchUtxosCore



\* ========================================================================
\* Esplora: get_with_retry
\* ========================================================================

\* the bound of `if attempt > 6`
RetryLimit == 6

\* HTTP statuses the server answers with
Statuses == {200, 404, 429, 503}

\* 429 Too many requests, 503 Service Temporarily Unavailable
is_retry_status(status) == status = 429 \/ status = 503

\* a backoff that grows by one second per attempt
BackoffLinear(n) == n + 1

\* let secs = 1 << attempt;
backoff_secs(n) == 2 ^ n

RetryIdle ==
    /\ attempt = 0
    /\ requests = 0
    /\ responses = <<>>
    /\ sleeps = <<>>
    /\ retry_pc = "idle"
    /\ retry_result = "none"

\* let mut attempt = 0; loop { ... }
RetryInit ==
    /\ attempt = 0
    /\ requests = 0
    /\ responses = <<>>
    /\ sleeps = <<>>
    /\ retry_pc = "loop"
    /\ retry_result = "none"

\* one iteration whose send() fails: map_err(..)? leaves the function
GetTransportError ==
    /\ retry_pc = "loop"
    /\ requests' = requests + 1
    /\ retry_pc' = "failed"
    /\ retry_result' = "Esplora(transport)"
    /\ UNCHANGED <<attempt, responses, sleeps>>
    /\ UNCHANGED retryRest

\* one iteration whose send() is answered with `status`
GetResponse(status) ==
    /\ retry_pc = "loop"
    /\ requests' = requests + 1
    /\ responses' = Append(responses, status)
    /\ IF is_retry_status(status)
       THEN IF attempt > RetryLimit
            THEN /\ retry_pc' = "failed"
                 /\ retry_result' = "Esplora(Too many retries)"
                 /\ UNCHANGED <<attempt, sleeps>>
            ELSE /\ sleeps' = Append(sleeps, backoff_secs(attempt) * 1000)
                 /\ attempt' = attempt + 1
                 /\ UNCHANGED <<retry_pc, retry_result>>
       ELSE /\ retry_pc' = "returned"
            /\ retry_result' = "Ok"
            /\ UNCHANGED <<attempt, sleeps>>
    /\ UNCHANGED retryRest

RetryNext ==
    \/ GetTransportError
    \/ \E status \in Statuses : GetResponse(status)

\* ========================================================================
\* Swap script: BtcSwapScript
\* ========================================================================

\* the caller's key and the service's key
OurKey == "our"
BoltzKey == "boltz"
PubKeys == {OurKey, BoltzKey}

SwapTypes == {"Submarine", "ReverseSubmarine", "Chain"}

\* Option<Side>
Sides == {"None", "Lockup", "Claim"}

\* enum Chain
Chains == {"Bitcoin", "BitcoinTestnet", "BitcoinRegtest",
           "Liquid", "LiquidTestnet", "LiquidRegtest"}

Networks == {"Bitcoin", "Testnet", "Regtest"}

\* Option::None of a record-valued field
None == [none |-> TRUE]

IsSome(x) == x # None

\* ---- script instructions ----------------------------------------------

\* Instruction::Op(opcode)
Op(name) == [kind |-> "op", name |-> name, len |-> 0, data |-> "", bytes |-> <<>>]

\* Instruction::PushBytes of a value kept symbolic (a hash, an x-only key)
PushData(len, data) ==
    [kind |-> "push", name |-> "", len |-> len, data |-> data, bytes |-> <<>>]

\* Instruction::PushBytes of explicit bytes
PushBytes(bytes) ==
    [kind |-> "push", name |-> "", len |-> Len(bytes), data |-> "", bytes |-> bytes]

\* A u32 is kept as its four little-endian bytes <<b0, b1, b2, b3>>, since
\* values from 2^31 on are beyond the integers of the model checker.
u32_word(n) ==
    <<n % 256, (n \div 256) % 256, (n \div 65536) % 256, (n \div 16777216) % 256>>

\* the bytes of a word without its trailing zero bytes
RECURSIVE strip_zeros(_)
strip_zeros(b) ==
    IF b # <<>> /\ b[Len(b)] = 0 THEN strip_zeros(SubSeq(b, 1, Len(b) - 1)) ELSE b

\* bitcoin::script::write_scriptint of a non-negative value: minimal
\* little-endian bytes plus a zero byte when the top bit of the last byte is set
scriptint_vec(w) ==
    LET b == strip_zeros(w)
    IN IF b # <<>> /\ b[Len(b)] >= 128 THEN Append(b, 0) ELSE b

OpNames == <<"OP_1", "OP_2", "OP_3", "OP_4", "OP_5", "OP_6", "OP_7", "OP_8",
             "OP_9", "OP_10", "OP_11", "OP_12", "OP_13", "OP_14", "OP_15", "OP_16">>

\* Builder::push_int of a non-negative value: 0 is the empty push OP_0,
\* 1..16 are OP_1..OP_16, any other value is a push of its script-integer bytes
push_int(w) ==
    IF strip_zeros(w) = <<>> THEN PushBytes(<<>>)
    ELSE IF Len(strip_zeros(w)) = 1 /\ w[1] <= 16 THEN Op(OpNames[w[1]])
    ELSE PushBytes(scriptint_vec(w))

\* Builder::push_lock_time(lock_time) = push_int(lock_time.to_consensus_u32())
push_lock_time(locktime) == push_int(locktime)

\* bitwise or of two naturals
RECURSIVE BitOr(_, _)
BitOr(a, b) ==
    IF a = 0 THEN b
    ELSE IF b = 0 THEN a
    ELSE (IF a % 2 = 1 \/ b % 2 = 1 THEN 1 ELSE 0) + 2 * BitOr(a \div 2, b \div 2)

\* result |= (byte as u32) << (8 * i), for i = k - 1 and on: without
\* overflow checks the shift amount is taken modulo 32, so byte i lands on
\* byte (i mod 4) of the result
RECURSIVE le_fold(_, _, _)
le_fold(bytes, k, acc) ==
    IF k > Len(bytes) THEN acc
    ELSE LET j == ((k - 1) % 4) + 1
         IN le_fold(bytes, k + 1, [acc EXCEPT ![j] = BitOr(@, bytes[k])])

\* pub fn bytes_to_u32_little_endian(bytes: &[u8]) -> u32, as a build
\* without overflow checks computes it
bytes_to_u32_little_endian(bytes) == le_fold(bytes, 1, <<0, 0, 0, 0>>)

\* with overflow checks the shift by 32 or more bits of a fifth byte panics
shl_overflows(bytes) == Len(bytes) > 4

\* ---- BtcSwapScript -----------------------------------------------------

\* the order that ignores the side of a Chain swap
KeyOrderIgnoringSide(s) ==
    IF s.swap_type = "ReverseSubmarine"
    THEN <<s.sender_pubkey, s.receiver_pubkey>>
    ELSE <<s.receiver_pubkey, s.sender_pubkey>>

\* BtcSwapScript::musig_keyagg_cache: the ordered key list of the cache
musig_keyagg_cache(s) ==
    IF s.swap_type = "ReverseSubmarine" \/ (s.swap_type = "Chain" /\ s.side = "Claim")
    THEN <<s.sender_pubkey, s.receiver_pubkey>>
    ELSE <<s.receiver_pubkey, s.sender_pubkey>>

\* BtcSwapScript::claim_script
claim_script(s) ==
    IF s.swap_type = "Submarine"
    THEN <<Op("OP_HASH160"), PushData(20, s.hashlock), Op("OP_EQUALVERIFY"),
           PushData(32, s.receiver_pubkey), Op("OP_CHECKSIG")>>
    ELSE <<Op("OP_SIZE"), push_int(u32_word(32)), Op("OP_EQUALVERIFY"),
           Op("OP_HASH160"), PushData(20, s.hashlock), Op("OP_EQUALVERIFY"),
           PushData(32, s.receiver_pubkey), Op("OP_CHECKSIG")>>

\* BtcSwapScript::refund_script
refund_script(s) ==
    <<PushData(32, s.sender_pubkey), Op("OP_CHECKSIGVERIFY"),
      push_lock_time(s.locktime), Op("OP_CLTV")>>

\* TaprootBuilder::finalize: the output key is the internal key tweaked by
\* the merkle root of the two leaves; kept as the values it is made of
TapOutputKey(key_order, claim_leaf, refund_leaf) ==
    [internal |-> key_order, claim |-> claim_leaf, refund |-> refund_leaf]

\* TaprootSpendInfo::tap_tweak
tap_tweak(spend_info) == [tweak_of |-> spend_info.output_key]

\* Address::p2tr_tweaked(output_key, network)
p2tr_tweaked(output_key, network) == [output_key |-> output_key, network |-> network]

Ok(v) == [ok |-> TRUE, err |-> "", val |-> v]
Err(kind) == [ok |-> FALSE, err |-> kind, val |-> None]

\* a taproot_spendinfo without the comparison against the funding address
TaprootSpendinfoUnverified(s) ==
    Ok([output_key |-> TapOutputKey(musig_keyagg_cache(s), claim_script(s), refund_script(s))])

\* BtcSwapScript::taproot_spendinfo
taproot_spendinfo(s) ==
    LET internal_key == musig_keyagg_cache(s)
        output_key == TapOutputKey(internal_key, claim_script(s), refund_script(s))
    IN IF IsSome(s.funding_addrs) /\ s.funding_addrs.output_key # output_key
       THEN Err("Protocol")
       ELSE Ok([output_key |-> output_key])

\* the match of to_address: Chain -> Network, None for the Liquid chains
bitcoin_network(chain) ==
    CASE chain = "Bitcoin" -> "Bitcoin"
      [] chain = "BitcoinRegtest" -> "Regtest"
      [] chain = "BitcoinTestnet" -> "Testnet"
      [] OTHER -> "none"

\* BtcSwapScript::to_address
to_address(s, chain) ==
    LET spend_info == taproot_spendinfo(s)
    IN IF ~ spend_info.ok THEN Err(spend_info.err)
       ELSE IF bitcoin_network(chain) = "none" THEN Err("Protocol")
       ELSE Ok(p2tr_tweaked(spend_info.val.output_key, bitcoin_network(chain)))

\* ========================================================================
\* Swap transaction: BtcSwapTx
\* ========================================================================

\* ---- symbolic signatures ----------------------------------------------

\* LockTime::ZERO
LockTimeZero == u32_word(0)

\* one element of a Witness
WitnessItem(kind, len, sig) == [kind |-> kind, len |-> len, sig |-> sig]

\* a placeholder of 65 bytes, the size of a signature with a sighash byte
StubbedWitnessWithSighashByte == <<WitnessItem("zeros", 65, None)>>

\* BtcSwapTx::stubbed_cooperative_witness: witness.push([0; 64])
stubbed_cooperative_witness == <<WitnessItem("zeros", 64, None)>>

\* the serialized size of a witness: the count of its items, then each item
\* with its length prefix (items here are shorter than 253 bytes)
RECURSIVE witness_size(_)
witness_size(witness) ==
    IF witness = <<>> THEN 1
    ELSE 1 + witness[1].len + witness_size(Tail(witness))

RECURSIVE witnesses_size(_)
witnesses_size(input) ==
    IF input = <<>> THEN 0
    ELSE witness_size(input[1].witness) + witnesses_size(Tail(input))

\* Transaction::vsize of a transaction with empty script_sigs and Taproot
\* outputs: weight = 4 * base size + marker, flag and witnesses; vsize is
\* the weight divided by 4, rounded up
vsize(tx) ==
    LET base == 4 + 1 + 41 * Len(tx.input) + 1 + 43 * Len(tx.output) + 4
        segwit == \E i \in 1..Len(tx.input) : tx.input[i].witness # <<>>
        weight == 4 * base + (IF segwit THEN 2 + witnesses_size(tx.input) ELSE 0)
    IN (weight + 3) \div 4

\* what a sighash commits to: everything of the transaction but the witnesses
TxCore(tx) ==
    [version |-> tx.version, lock_time |-> tx.lock_time,
     input |-> [i \in 1..Len(tx.input) |->
                  [previous_output |-> tx.input[i].previous_output,
                   sequence |-> tx.input[i].sequence]],
     output |-> tx.output]

\* SighashCache::taproot_key_spend_signature_hash(index, Prevouts::All, Default)
taproot_key_spend_signature_hash(tx, index, prevouts) ==
    [spend |-> "key", leaf |-> "", index |-> index, tx |-> TxCore(tx), prevouts |-> prevouts]

\* SighashCache::taproot_script_spend_signature_hash(index, prevouts, leaf_hash, Default)
taproot_script_spend_signature_hash(tx, index, prevouts, leaf) ==
    [spend |-> "script", leaf |-> leaf, index |-> index, tx |-> TxCore(tx), prevouts |-> prevouts]

\* Secp256k1::sign_schnorr(msg, keys)
sign_schnorr(msg, key) == [schnorr_by |-> key, msg |-> msg]

\* the key-aggregation cache: the ordered keys and the x-only tweak added
KeyAggCache(keys, tweak) == [keys |-> keys, tweak |-> tweak]

\* MusigKeyAggCache::pubkey_xonly_tweak_add
pubkey_xonly_tweak_add(cache, tweak) == [cache EXCEPT !.tweak = tweak]

\* MusigKeyAggCache::nonce_gen with a fresh session id: the pair of the
\* secret and the public nonce number n
SecNonce(n) == [sec_nonce |-> n]
PubNonce(n, key) == [pub_nonce |-> n, of |-> key]

\* the public nonce the service answers with
PeerNonce == PubNonce(0, BoltzKey)

\* MusigAggNonce::new(&[a, b])
MusigAggNonce(a, b) == {a, b}

\* MusigSession::new(cache, agg_nonce, msg)
MusigSession(cache, agg_nonce, msg) == [cache |-> cache, agg_nonce |-> agg_nonce, msg |-> msg]

\* MusigSession::partial_sign(sec_nonce, keys, cache)
partial_sign_with(session, sec_nonce, key) ==
    [signer |-> key, pub_nonce |-> PubNonce(sec_nonce.sec_nonce, key), session |-> session]

\* a verification that accepts every partial signature
PartialVerifyAlways(session, partial_sig, pub_nonce, pubkey) == TRUE

\* MusigSession::partial_verify(cache, partial_sig, pub_nonce, pubkey)
partial_verify(session, partial_sig, pub_nonce, pubkey) ==
    /\ partial_sig.signer = pubkey
    /\ partial_sig.pub_nonce = pub_nonce
    /\ partial_sig.session = session

\* MusigSession::partial_sig_agg(&[a, b])
partial_sig_agg(session, a, b) == [session |-> session, parts |-> {a, b}]

\* Secp256k1::verify_schnorr(sig, msg, output_key) of an aggregated signature
verify_schnorr(sig, msg, output_key) ==
    /\ sig.session.msg = msg
    /\ sig.session.cache.keys = output_key.internal
    /\ sig.session.cache.tweak = [tweak_of |-> output_key]
    /\ \A part \in sig.parts : part.session = sig.session
    /\ {part.signer : part \in sig.parts} = Range(output_key.internal)
    /\ {part.pub_nonce : part \in sig.parts} = sig.session.agg_nonce

\* ---- building the transactions ----------------------------------------

\* util::fees::create_tx_with_fee for Fee::Absolute: the constructor is run
\* once with the given fee
create_tx_with_fee(fee, tx_constructor) == tx_constructor[fee]

\* a create_claim that does not test preimage.bytes
CreateClaimAnyPreimage(stx, s, key, preimage, absolute_fees, is_cooperative, overflow_checks) ==
    IF stx.utxos = <<>> THEN Err("Protocol")
    ELSE LET utxo == stx.utxos[1]
             txin == [previous_output |-> utxo[1],
                      sequence |-> "ENABLE_RBF_NO_LOCKTIME",
                      witness |-> <<>>]
             txout == TxOut(utxo[2].value - absolute_fees, stx.output_address)
             claim_tx == [version |-> 2, lock_time |-> LockTimeZero,
                          input |-> <<txin>>, output |-> <<txout>>]
         IN IF absolute_fees > utxo[2].value /\ overflow_checks THEN Err("panic")
            ELSE IF is_cooperative
            THEN Ok([claim_tx EXCEPT !.input[1].witness = stubbed_cooperative_witness])
            ELSE LET unsigned == [claim_tx EXCEPT !.input[1].sequence = "ZERO"]
                     msg == taproot_script_spend_signature_hash(unsigned, 0, <<utxo[2]>>, "claim")
                     final_sig == sign_schnorr(msg, key)
                     spend_info == taproot_spendinfo(s)
                 IN IF ~ spend_info.ok THEN Err(spend_info.err)
                    ELSE Ok([unsigned EXCEPT !.input[1].witness =
                               <<WitnessItem("signature", 64, final_sig),
                                 WitnessItem("preimage", 32, None),
                                 WitnessItem("claim_leaf", 0, None),
                                 WitnessItem("control_block(claim_leaf)", 65, None)>>])

\* BtcSwapTx::create_claim; overflow_checks tells how the build treats the
\* u64 subtraction `value - absolute_fees`; a negative output value n stands
\* for the wrapped-around amount 2^64 + n
create_claim(stx, s, key, preimage, absolute_fees, is_cooperative, overflow_checks) ==
    IF preimage = "none" THEN Err("Protocol")
    ELSE IF stx.utxos = <<>> THEN Err("Protocol")
    ELSE LET utxo == stx.utxos[1]
             txin == [previous_output |-> utxo[1],
                      sequence |-> "ENABLE_RBF_NO_LOCKTIME",
                      witness |-> <<>>]
             txout == TxOut(utxo[2].value - absolute_fees, stx.output_address)
             claim_tx == [version |-> 2, lock_time |-> LockTimeZero,
                          input |-> <<txin>>, output |-> <<txout>>]
         IN IF absolute_fees > utxo[2].value /\ overflow_checks THEN Err("panic")
            ELSE IF is_cooperative
            THEN Ok([claim_tx EXCEPT !.input[1].witness = stubbed_cooperative_witness])
            ELSE LET unsigned == [claim_tx EXCEPT !.input[1].sequence = "ZERO"]
                     msg == taproot_script_spend_signature_hash(unsigned, 0, <<utxo[2]>>, "claim")
                     final_sig == sign_schnorr(msg, key)
                     spend_info == taproot_spendinfo(s)
                 IN IF ~ spend_info.ok THEN Err(spend_info.err)
                    ELSE Ok([unsigned EXCEPT !.input[1].witness =
                               <<WitnessItem("signature", 64, final_sig),
                                 WitnessItem("preimage", 32, None),
                                 WitnessItem("claim_leaf", 0, None),
                                 WitnessItem("control_block(claim_leaf)", 65, None)>>])

\* utxos.iter().fold(Amount::ZERO, |acc, (_, txo)| acc + txo.value)
RECURSIVE utxos_amount(_)
utxos_amount(utxos) ==
    IF utxos = <<>> THEN 0 ELSE utxos[1][2].value + utxos_amount(Tail(utxos))

\* refund_script().instructions().filter_map(push of fewer than 5 bytes)
\* .next(): the decoded first such push, or None
RECURSIVE first_short_push(_)
first_short_push(script) ==
    IF script = <<>> THEN None
    ELSE IF script[1].kind = "push" /\ script[1].len < 5
    THEN [lock_time |-> bytes_to_u32_little_endian(script[1].bytes)]
    ELSE first_short_push(Tail(script))

\* a create_refund that rejects a fee above the funds only, not one equal
\* to them
CreateRefundFeeBoundary(stx, s, key, absolute_fees, is_cooperative) ==
    IF utxos_amount(stx.utxos) < absolute_fees THEN Err("Generic")
    ELSE LET output == TxOut(utxos_amount(stx.utxos) - absolute_fees, stx.output_address)
             unsigned_inputs == [i \in 1..Len(stx.utxos) |->
                                   [previous_output |-> stx.utxos[i][1],
                                    sequence |-> "MAX",
                                    witness |-> <<>>]]
             lock_time == first_short_push(refund_script(s))
             tx_outs == [i \in 1..Len(stx.utxos) |-> stx.utxos[i][2]]
         IN IF lock_time = None THEN Err("Protocol")
            ELSE LET refund_tx == [version |-> 2, lock_time |-> lock_time.lock_time,
                                   input |-> unsigned_inputs, output |-> <<output>>]
                 IN IF is_cooperative
                    THEN Ok([refund_tx EXCEPT !.input =
                               [i \in 1..Len(unsigned_inputs) |->
                                  [unsigned_inputs[i] EXCEPT !.witness = stubbed_cooperative_witness]]])
                    ELSE LET spend_info == taproot_spendinfo(s)
                             zeroed == [refund_tx EXCEPT !.input =
                                          [i \in 1..Len(unsigned_inputs) |->
                                             [unsigned_inputs[i] EXCEPT !.sequence = "ZERO"]]]
                         IN IF ~ spend_info.ok THEN Err(spend_info.err)
                            ELSE Ok([zeroed EXCEPT !.input =
                                       [i \in 1..Len(unsigned_inputs) |->
                                          [zeroed.input[i] EXCEPT !.witness =
                                             <<WitnessItem("signature", 64,
                                                  sign_schnorr(
                                                    taproot_script_spend_signature_hash(
                                                      zeroed, i - 1, tx_outs, "refund"), key)),
                                               WitnessItem("refund_leaf", 0, None),
                                               WitnessItem("control_block(refund_leaf)", 65, None)>>]]])

\* BtcSwapTx::create_refund
create_refund(stx, s, key, absolute_fees, is_cooperative) ==
    IF utxos_amount(stx.utxos) <= absolute_fees THEN Err("Generic")
    ELSE LET output == TxOut(utxos_amount(stx.utxos) - absolute_fees, stx.output_address)
             unsigned_inputs == [i \in 1..Len(stx.utxos) |->
                                   [previous_output |-> stx.utxos[i][1],
                                    sequence |-> "MAX",
                                    witness |-> <<>>]]
             lock_time == first_short_push(refund_script(s))
             tx_outs == [i \in 1..Len(stx.utxos) |-> stx.utxos[i][2]]
         IN IF lock_time = None THEN Err("Protocol")
            ELSE LET refund_tx == [version |-> 2, lock_time |-> lock_time.lock_time,
                                   input |-> unsigned_inputs, output |-> <<output>>]
                 IN IF is_cooperative
                    THEN Ok([refund_tx EXCEPT !.input =
                               [i \in 1..Len(unsigned_inputs) |->
                                  [unsigned_inputs[i] EXCEPT !.witness = stubbed_cooperative_witness]]])
                    ELSE LET spend_info == taproot_spendinfo(s)
                             zeroed == [refund_tx EXCEPT !.input =
                                          [i \in 1..Len(unsigned_inputs) |->
                                             [unsigned_inputs[i] EXCEPT !.sequence = "ZERO"]]]
                         IN IF ~ spend_info.ok THEN Err(spend_info.err)
                            ELSE Ok([zeroed EXCEPT !.input =
                                       [i \in 1..Len(unsigned_inputs) |->
                                          [zeroed.input[i] EXCEPT !.witness =
                                             <<WitnessItem("signature", 64,
                                                  sign_schnorr(
                                                    taproot_script_spend_signature_hash(
                                                      zeroed, i - 1, tx_outs, "refund"), key)),
                                               WitnessItem("refund_leaf", 0, None),
                                               WitnessItem("control_block(refund_leaf)", 65, None)>>]]])

\* ---- the calls ----------------------------------------------------------

\* most UTXOs a BtcSwapTx holds
MaxUtxos == 2

\* the HTLC outputs: each pays the lockup script with the same value
HtlcUtxo(k) == <<OutPoint("lockup", k - 1), TxOut(1000, "htlc")>>

\* absolute fees: below the value of one UTXO, equal to it, and between the
\* value of one and of two
Fees == {300, 1000, 1500}

\* locktimes: 16 is pushed as OP_16, 500 as the two bytes f4 01
Locktimes == {u32_word(16), u32_word(500)}

\* the fields of a BtcSwapScript but the funding address
ScriptCores ==
    {c \in [swap_type : SwapTypes, side : Sides, hashlock : {"hash160"},
            receiver_pubkey : PubKeys, locktime : Locktimes, sender_pubkey : PubKeys] :
        c.sender_pubkey # c.receiver_pubkey}

\* the lockup addresses the service can declare for a swap: a Taproot
\* address of one of the networks whose key aggregates the two swap keys in
\* one order or the other
FundingAddresses(c) ==
    {p2tr_tweaked(TapOutputKey(order, claim_script(c), refund_script(c)), n) :
        order \in {<<c.sender_pubkey, c.receiver_pubkey>>,
                   <<c.receiver_pubkey, c.sender_pubkey>>},
        n \in Networks}

BtcSwapScript(c, funding_addrs) ==
    [swap_type |-> c.swap_type, side |-> c.side, funding_addrs |-> funding_addrs,
     hashlock |-> c.hashlock, receiver_pubkey |-> c.receiver_pubkey,
     locktime |-> c.locktime, sender_pubkey |-> c.sender_pubkey]

SwapScripts ==
    UNION {{BtcSwapScript(c, a) : a \in {None} \cup FundingAddresses(c)} : c \in ScriptCores}

\* BtcSwapTx { kind, swap_script, output_address, utxos }; the swap script
\* is the variable swap_script; new_claim and new_refund return no BtcSwapTx
\* without a UTXO
SwapTxs ==
    {[kind |-> k, output_address |-> "destination",
      utxos |-> [i \in 1..n |-> HtlcUtxo(i)]] : k \in {"Claim", "Refund"}, n \in 1..MaxUtxos}

\* Option<Cooperative>: None, Some without and Some with the caller's
\* pub_nonce and partial_sig for the service's own claim
CoopArgs == {"None", "Some", "SomeWithSig"}

NoRet == [kind |-> "none"]
NoResult == [status |-> "none", err |-> "", ret |-> NoRet]
ErrResult(kind) ==
    [status |-> IF kind = "panic" THEN "Panic" ELSE "Err", err |-> kind, ret |-> NoRet]
OkResult(ret) == [status |-> "Ok", err |-> "", ret |-> ret]

\* the locals of the MuSig2 block, before any of them is assigned
LocInit ==
    [msg |-> None, cache |-> None, sec_nonce |-> None, pub_nonce |-> None,
     boltz_nonce |-> None, boltz_sig |-> None, session |-> None,
     our_sig |-> None, schnorr |-> None]

Event(ev, input, nonce) == [ev |-> ev, input |-> input, nonce |-> nonce]

SignIdle ==
    /\ swap_script = None
    /\ swap_tx = None
    /\ call = None
    /\ sign_pc = "idle"
    /\ cur_tx = None
    /\ input_index = 0
    /\ loc = LocInit
    /\ events = <<>>
    /\ nonce_ctr = 0
    /\ sent = <<>>
    /\ result = NoResult

SignInit ==
    /\ swap_script \in SwapScripts
    /\ swap_tx \in SwapTxs
    /\ call = None
    /\ sign_pc = "ready"
    /\ cur_tx = None
    /\ input_index = 0
    /\ loc = LocInit
    /\ events = <<>>
    /\ nonce_ctr = 0
    /\ sent = <<>>
    /\ result = NoResult

\* the call returns r
Return(r) ==
    /\ sign_pc' = "done"
    /\ result' = r

\* BtcSwapScript::to_address(chain)
ToAddressCall(chain) ==
    /\ sign_pc = "ready"
    /\ call' = [op |-> "to_address", chain |-> chain]
    /\ LET r == to_address(swap_script, chain)
       IN Return(IF r.ok THEN OkResult([kind |-> "address", address |-> r.val])
                 ELSE ErrResult(r.err))
    /\ UNCHANGED <<swap_script, swap_tx, cur_tx, input_index, loc, events, nonce_ctr, sent>>
    /\ UNCHANGED signRest

\* BtcSwapTx::partial_sign(keys, pub_nonce, transaction_hash); the two hex
\* arguments decode or not
PartialSignCall(nonce_hex_ok, hash_hex_ok) ==
    /\ sign_pc = "ready"
    /\ call' = [op |-> "partial_sign", nonce_hex_ok |-> nonce_hex_ok, hash_hex_ok |-> hash_hex_ok]
    /\ LET spend_info == taproot_spendinfo(swap_script)
           cache == pubkey_xonly_tweak_add(
                        KeyAggCache(musig_keyagg_cache(swap_script), None),
                        tap_tweak(spend_info.val))
           msg == [spend |-> "given", leaf |-> "", index |-> 0, tx |-> None, prevouts |-> <<>>]
           n == nonce_ctr + 1
           session == MusigSession(cache, MusigAggNonce(PeerNonce, PubNonce(n, OurKey)), msg)
           partial_sig == partial_sign_with(session, SecNonce(n), OurKey)
       IN IF ~ spend_info.ok
          THEN /\ Return(ErrResult(spend_info.err))
               /\ UNCHANGED <<events, nonce_ctr>>
          ELSE IF ~ hash_hex_ok
          THEN /\ Return(ErrResult("Hex"))
               /\ UNCHANGED <<events, nonce_ctr>>
          ELSE IF ~ nonce_hex_ok
          THEN /\ Return(ErrResult("Hex"))
               /\ nonce_ctr' = n
               /\ events' = Append(events, Event("nonce_gen", 0, n))
          ELSE /\ Return(OkResult([kind |-> "partial_sig", partial_sig |-> partial_sig,
                                   pub_nonce |-> PubNonce(n, OurKey)]))
               /\ nonce_ctr' = n
               /\ events' = events \o <<Event("nonce_gen", 0, n), Event("partial_sign", 0, n)>>
    /\ UNCHANGED <<swap_script, swap_tx, cur_tx, input_index, loc, sent>>
    /\ UNCHANGED signRest

\* BtcSwapTx::sign_claim up to the MuSig2 block
SignClaimCall(preimage, fee, coop, overflow_checks) ==
    /\ sign_pc = "ready"
    /\ call' = [op |-> "sign_claim", preimage |-> preimage, fee |-> fee, coop |-> coop]
    /\ LET build == [f \in Fees |->
                        create_claim(swap_tx, swap_script, OurKey, preimage, f,
                                     coop # "None", overflow_checks)]
           claim_tx == create_tx_with_fee(fee, build)
       IN IF swap_script.swap_type = "Submarine" \/ swap_tx.kind = "Refund"
          THEN Return(ErrResult("Protocol")) /\ UNCHANGED cur_tx
          ELSE IF ~ claim_tx.ok
          THEN Return(ErrResult(claim_tx.err)) /\ UNCHANGED cur_tx
          ELSE IF coop = "None"
          THEN Return(OkResult([kind |-> "tx", tx |-> claim_tx.val])) /\ UNCHANGED cur_tx
          ELSE /\ cur_tx' = claim_tx.val
               /\ sign_pc' = "sighash"
               /\ UNCHANGED result
    /\ UNCHANGED <<swap_script, swap_tx, input_index, loc, events, nonce_ctr, sent>>
    /\ UNCHANGED signRest

\* a sign_refund without the tests of the swap type and of the kind
SignRefundCallUnchecked(fee, coop) ==
    /\ sign_pc = "ready"
    /\ call' = [op |-> "sign_refund", preimage |-> "none", fee |-> fee, coop |-> coop]
    /\ LET build == [f \in Fees |->
                        create_refund(swap_tx, swap_script, OurKey, f, coop # "None")]
           refund_tx == create_tx_with_fee(fee, build)
       IN IF ~ refund_tx.ok
          THEN Return(ErrResult(refund_tx.err)) /\ UNCHANGED cur_tx
          ELSE IF coop = "None"
          THEN Return(OkResult([kind |-> "tx", tx |-> refund_tx.val])) /\ UNCHANGED cur_tx
          ELSE /\ cur_tx' = [refund_tx.val EXCEPT !.lock_time = LockTimeZero]
               /\ sign_pc' = "sighash"
               /\ UNCHANGED result
    /\ UNCHANGED <<swap_script, swap_tx, input_index, loc, events, nonce_ctr, sent>>
    /\ UNCHANGED signRest

\* BtcSwapTx::sign_refund up to the loop over the inputs
SignRefundCall(fee, coop) ==
    /\ sign_pc = "ready"
    /\ call' = [op |-> "sign_refund", preimage |-> "none", fee |-> fee, coop |-> coop]
    /\ LET build == [f \in Fees |->
                        create_refund(swap_tx, swap_script, OurKey, f, coop # "None")]
           refund_tx == create_tx_with_fee(fee, build)
       IN IF swap_script.swap_type = "ReverseSubmarine" \/ swap_tx.kind = "Claim"
          THEN Return(ErrResult("Protocol")) /\ UNCHANGED cur_tx
          ELSE IF ~ refund_tx.ok
          THEN Return(ErrResult(refund_tx.err)) /\ UNCHANGED cur_tx
          ELSE IF coop = "None"
          THEN Return(OkResult([kind |-> "tx", tx |-> refund_tx.val])) /\ UNCHANGED cur_tx
          ELSE \* refund_tx.lock_time = LockTime::ZERO; for input_index in 0..len
               /\ cur_tx' = [refund_tx.val EXCEPT !.lock_time = LockTimeZero]
               /\ sign_pc' = "sighash"
               /\ UNCHANGED result
    /\ UNCHANGED <<swap_script, swap_tx, input_index, loc, events, nonce_ctr, sent>>
    /\ UNCHANGED signRest

\* ---- the MuSig2 block of sign_claim and sign_refund -----------------------

\* an order that signs before it verifies the service's partial signature
CoopStepsSignFirst ==
    <<"sighash", "tweak", "nonce_gen", "send", "await", "partial_sign",
      "verify_peer", "aggregate", "verify_aggregate", "witness", "end">>

\* the statements of the block in program order
CoopSteps ==
    <<"sighash", "tweak", "nonce_gen", "send", "await", "verify_peer",
      "partial_sign", "aggregate", "verify_aggregate", "witness", "end">>

step_after(pc) == CoopSteps[(CHOOSE i \in 1..Len(CoopSteps) : CoopSteps[i] = pc) + 1]

\* the block goes on with its next statement
Proceed ==
    /\ sign_pc' = step_after(sign_pc)
    /\ UNCHANGED result

IsClaim == call.op = "sign_claim"

\* Prevouts::All of the key-spend sighash
prevouts_all ==
    IF IsClaim THEN <<swap_tx.utxos[1][2]>>
    ELSE [i \in 1..Len(swap_tx.utxos) |-> swap_tx.utxos[i][2]]

\* Step 1: the key-spend sighash of the input
CoopSighash ==
    /\ sign_pc = "sighash"
    /\ loc' = [LocInit EXCEPT
                 !.msg = taproot_key_spend_signature_hash(cur_tx, input_index, prevouts_all)]
    /\ Proceed
    /\ UNCHANGED <<swap_script, swap_tx, call, cur_tx, input_index, events, nonce_ctr, sent>>
    /\ UNCHANGED signRest

\* Step 2: the key-aggregation cache, tweaked with the tap tweak of the
\* verified spend info
CoopTweak ==
    /\ sign_pc = "tweak"
    /\ LET spend_info == taproot_spendinfo(swap_script)
       IN IF ~ spend_info.ok
          THEN Return(ErrResult(spend_info.err)) /\ UNCHANGED loc
          ELSE /\ loc' = [loc EXCEPT !.cache =
                            pubkey_xonly_tweak_add(
                                KeyAggCache(musig_keyagg_cache(swap_script), None),
                                tap_tweak(spend_info.val))]
               /\ Proceed
    /\ UNCHANGED <<swap_script, swap_tx, call, cur_tx, input_index, events, nonce_ctr, sent>>
    /\ UNCHANGED signRest

\* a nonce_gen that hands out the nonce pair of the previous input again
NonceGenReused ==
    /\ sign_pc = "nonce_gen"
    /\ LET n == IF nonce_ctr = 0 THEN 1 ELSE nonce_ctr
       IN /\ nonce_ctr' = n
          /\ loc' = [loc EXCEPT !.sec_nonce = SecNonce(n), !.pub_nonce = PubNonce(n, OurKey)]
          /\ events' = Append(events, Event("nonce_gen", input_index, n))
    /\ Proceed
    /\ UNCHANGED <<swap_script, swap_tx, call, cur_tx, input_index, sent>>
    /\ UNCHANGED signRest

\* MusigSessionId::new(&mut thread_rng()), OsRng.fill_bytes, nonce_gen: a
\* nonce pair no earlier call of nonce_gen returned
CoopNonceGen ==
    /\ sign_pc = "nonce_gen"
    /\ LET n == nonce_ctr + 1
       IN /\ nonce_ctr' = n
          /\ loc' = [loc EXCEPT !.sec_nonce = SecNonce(n), !.pub_nonce = PubNonce(n, OurKey)]
          /\ events' = Append(events, Event("nonce_gen", input_index, n))
    /\ Proceed
    /\ UNCHANGED <<swap_script, swap_tx, call, cur_tx, input_index, sent>>
    /\ UNCHANGED signRest

\* a match that asks the Submarine endpoint for the refund of every swap type
PeerEndpointSubmarineOnly ==
    IF IsClaim
    THEN CASE swap_script.swap_type = "Chain" ->
                 IF call.coop = "SomeWithSig" THEN "post_chain_claim_tx_details" ELSE "none"
           [] swap_script.swap_type = "ReverseSubmarine" -> "get_reverse_partial_sig"
           [] OTHER -> "none"
    ELSE "get_submarine_partial_sig"

\* the service endpoint of the match on swap_type, "none" for the arms
\* that return a Protocol error without calling the service
peer_endpoint ==
    IF IsClaim
    THEN CASE swap_script.swap_type = "Chain" ->
                 IF call.coop = "SomeWithSig" THEN "post_chain_claim_tx_details" ELSE "none"
           [] swap_script.swap_type = "ReverseSubmarine" -> "get_reverse_partial_sig"
           [] OTHER -> "none"
    ELSE CASE swap_script.swap_type = "Chain" -> "get_chain_partial_sig"
           [] swap_script.swap_type = "Submarine" -> "get_submarine_partial_sig"
           [] OTHER -> "none"

\* Step 7: the transaction hex and the public nonce go to the service
CoopSend ==
    /\ sign_pc = "send"
    /\ IF peer_endpoint = "none"
       THEN Return(ErrResult("Protocol")) /\ UNCHANGED <<sent, events>>
       ELSE /\ sent' = Append(sent, [endpoint |-> peer_endpoint, index |-> input_index,
                                     pub_nonce |-> loc.pub_nonce, tx |-> cur_tx])
            /\ events' = Append(events, Event("send", input_index, loc.pub_nonce.pub_nonce))
            /\ Proceed
    /\ UNCHANGED <<swap_script, swap_tx, call, cur_tx, input_index, loc, nonce_ctr>>
    /\ UNCHANGED signRest

\* what the service can answer
PeerAnswers == {"valid", "invalid", "malformed", "error"}

\* the answer of the service arrives: an error of the call, hex that does
\* not decode, or a public nonce and a partial signature, which verifies or
\* is a signature of another message; then the aggregated nonce and the
\* session are built
PeerRespond(answer) ==
    /\ sign_pc = "await"
    /\ LET agg_nonce == MusigAggNonce(PeerNonce, loc.pub_nonce)
           session == MusigSession(loc.cache, agg_nonce, loc.msg)
           signed == IF answer = "valid" THEN session
                     ELSE [session EXCEPT !.msg.leaf = "another message"]
       IN CASE answer = "error" -> Return(ErrResult("Api")) /\ UNCHANGED loc
            [] answer = "malformed" -> Return(ErrResult("Hex")) /\ UNCHANGED loc
            [] OTHER ->
                 /\ loc' = [loc EXCEPT
                              !.boltz_nonce = PeerNonce,
                              !.boltz_sig = [signer |-> BoltzKey, pub_nonce |-> PeerNonce,
                                             session |-> signed],
                              !.session = session]
                 /\ Proceed
    /\ UNCHANGED <<swap_script, swap_tx, call, cur_tx, input_index, events, nonce_ctr, sent>>
    /\ UNCHANGED signRest

\* the public key the service's partial signature is verified against
boltz_verify_key ==
    IF IsClaim THEN swap_script.sender_pubkey ELSE swap_script.receiver_pubkey

\* Verify the Boltz's sig.
CoopVerifyPeer ==
    /\ sign_pc = "verify_peer"
    /\ events' = Append(events, Event("verify_peer", input_index, 0))
    /\ IF partial_verify(loc.session, loc.boltz_sig, loc.boltz_nonce, boltz_verify_key)
       THEN Proceed
       ELSE Return(ErrResult("Protocol"))
    /\ UNCHANGED <<swap_script, swap_tx, call, cur_tx, input_index, loc, nonce_ctr, sent>>
    /\ UNCHANGED signRest

\* musig_session.partial_sign(&secp, sec_nonce, keys, &key_agg_cache)
CoopPartialSign ==
    /\ sign_pc = "partial_sign"
    /\ loc' = [loc EXCEPT !.our_sig = partial_sign_with(loc.session, loc.sec_nonce, OurKey)]
    /\ events' = Append(events, Event("partial_sign", input_index, loc.sec_nonce.sec_nonce))
    /\ Proceed
    /\ UNCHANGED <<swap_script, swap_tx, call, cur_tx, input_index, nonce_ctr, sent>>
    /\ UNCHANGED signRest

\* musig_session.partial_sig_agg(&[boltz_partial_sig, our_partial_sig])
CoopAggregate ==
    /\ sign_pc = "aggregate"
    /\ loc' = [loc EXCEPT !.schnorr = partial_sig_agg(loc.session, loc.boltz_sig, loc.our_sig)]
    /\ events' = Append(events, Event("aggregate", input_index, 0))
    /\ Proceed
    /\ UNCHANGED <<swap_script, swap_tx, call, cur_tx, input_index, nonce_ctr, sent>>
    /\ UNCHANGED signRest

\* secp.verify_schnorr(&final_schnorr_sig.signature, &msg, &output_key)?
CoopVerifyAggregate ==
    /\ sign_pc = "verify_aggregate"
    /\ LET spend_info == taproot_spendinfo(swap_script)
       IN IF ~ spend_info.ok
          THEN Return(ErrResult(spend_info.err)) /\ UNCHANGED events
          ELSE /\ events' = Append(events, Event("verify_aggregate", input_index, 0))
               /\ IF verify_schnorr(loc.schnorr, loc.msg, spend_info.val.output_key)
                  THEN Proceed
                  ELSE Return(ErrResult("Secp"))
    /\ UNCHANGED <<swap_script, swap_tx, call, cur_tx, input_index, loc, nonce_ctr, sent>>
    /\ UNCHANGED signRest

\* a last step that pushes the signature onto the witness the input has
CoopSetWitnessAppended ==
    /\ sign_pc = "witness"
    /\ events' = Append(events, Event("witness", input_index, 0))
    /\ LET signed == [cur_tx EXCEPT ![ "input" ][input_index + 1].witness =
                        Append(cur_tx.input[input_index + 1].witness,
                               WitnessItem("signature", 64, loc.schnorr))]
       IN /\ cur_tx' = signed
          /\ IF ~ IsClaim /\ input_index + 1 < Len(cur_tx.input)
             THEN /\ input_index' = input_index + 1
                  /\ sign_pc' = "sighash"
                  /\ UNCHANGED result
             ELSE /\ Return(OkResult([kind |-> "tx", tx |-> signed]))
                  /\ UNCHANGED input_index
    /\ UNCHANGED <<swap_script, swap_tx, call, loc, nonce_ctr, sent>>
    /\ UNCHANGED signRest

\* the witness of the input becomes the aggregated signature; sign_claim
\* returns, sign_refund goes on with the next input or returns
CoopSetWitness ==
    /\ sign_pc = "witness"
    /\ events' = Append(events, Event("witness", input_index, 0))
    /\ LET signed == [cur_tx EXCEPT ![ "input" ][input_index + 1].witness =
                        <<WitnessItem("signature", 64, loc.schnorr)>>]
       IN /\ cur_tx' = signed
          /\ IF ~ IsClaim /\ input_index + 1 < Len(cur_tx.input)
             THEN /\ input_index' = input_index + 1
                  /\ sign_pc' = "sighash"
                  /\ UNCHANGED result
             ELSE /\ Return(OkResult([kind |-> "tx", tx |-> signed]))
                  /\ UNCHANGED input_index
    /\ UNCHANGED <<swap_script, swap_tx, call, loc, nonce_ctr, sent>>
    /\ UNCHANGED signRest

SignNext ==
    \/ \E chain \in Chains : ToAddressCall(chain)
    \/ \E nonce_hex_ok \in BOOLEAN, hash_hex_ok \in BOOLEAN :
          PartialSignCall(nonce_hex_ok, hash_hex_ok)
    \/ \E preimage \in {"none", "preimage"}, fee \in Fees, coop \in CoopArgs,
          overflow_checks \in BOOLEAN :
          SignClaimCall(preimage, fee, coop, overflow_checks)
    \/ \E fee \in Fees, coop \in {"None", "Some"} : SignRefundCall(fee, coop)
    \/ CoopSighash
    \/ CoopTweak
    \/ CoopNonceGen
    \/ CoopSend
    \/ \E answer \in PeerAnswers : PeerRespond(answer)
    \/ CoopVerifyPeer
    \/ CoopPartialSign
    \/ CoopAggregate
    \/ CoopVerifyAggregate
    \/ CoopSetWitness

\* ========================================================================
\* Building a BtcSwapScript from the response of the service
\* ========================================================================

\* longest claim leaf drawn, in instructions
MaxLeaf == 4

\* the instructions a claim leaf is drawn from: two different pushes of 20
\* bytes, a push of 32 bytes and two opcodes
ClaimLeafItems ==
    {Op("OP_HASH160"), Op("OP_EQUALVERIFY"),
     PushData(20, "hashA"), PushData(20, "hashB"), PushData(32, BoltzKey)}

\* the refund leaves drawn; every push after OP_CHECKSIGVERIFY has explicit
\* bytes:
\*   the canonical leaf with locktime 500 (f401),
\*   the canonical leaf with the push 00e1f505 (100000000),
\*   a leaf without a push after OP_CHECKSIGVERIFY,
\*   a leaf with two pushes after OP_CHECKSIGVERIFY (500, then 10000),
\*   a leaf whose only later push comes after another opcode,
\*   a leaf with a push of five bytes after OP_CHECKSIGVERIFY
RefundLeaves ==
    {<<PushData(32, OurKey), Op("OP_CHECKSIGVERIFY"), PushBytes(<<244, 1>>), Op("OP_CLTV")>>,
     <<PushData(32, OurKey), Op("OP_CHECKSIGVERIFY"), PushBytes(<<0, 225, 245, 5>>),
       Op("OP_CLTV")>>,
     <<PushData(32, OurKey), Op("OP_CHECKSIGVERIFY"), Op("OP_CLTV")>>,
     <<PushData(32, OurKey), Op("OP_CHECKSIGVERIFY"), PushBytes(<<244, 1>>),
       PushBytes(<<16, 39>>), Op("OP_CLTV")>>,
     <<PushData(32, OurKey), Op("OP_CHECKSIGVERIFY"), Op("OP_CLTV"), PushBytes(<<244, 1>>)>>,
     <<PushData(32, OurKey), Op("OP_CHECKSIGVERIFY"), PushBytes(<<2, 0, 0, 0, 1>>),
       Op("OP_CLTV")>>}

\* the lockup address of the response once parsed; None when it does not parse
ResponseAddresses == {None, p2tr_tweaked("service", "Bitcoin")}

\* a scan that stops at the first push of 20 bytes
RECURSIVE ScanHashlockFirst(_, _)
ScanHashlockFirst(instructions, hashlock) ==
    IF instructions = <<>> THEN hashlock
    ELSE IF instructions[1].kind = "push" /\ instructions[1].len = 20
    THEN [hash |-> instructions[1].data]
    ELSE ScanHashlockFirst(Tail(instructions), hashlock)

\* for instruction in claim_instructions { ... }: every push of 20 bytes
\* is assigned to hashlock, the loop runs to the end of the leaf
RECURSIVE scan_hashlock(_, _)
scan_hashlock(instructions, hashlock) ==
    IF instructions = <<>> THEN hashlock
    ELSE scan_hashlock(Tail(instructions),
                       IF instructions[1].kind = "push" /\ instructions[1].len = 20
                       THEN [hash |-> instructions[1].data]
                       ELSE hashlock)

\* a scan that uses a push only when the instruction right before it is
\* OP_CHECKSIGVERIFY
RECURSIVE ScanTimelockImmediate(_, _, _)
ScanTimelockImmediate(instructions, st, overflow_checks) ==
    IF instructions = <<>> \/ st.panic THEN st
    ELSE LET ins == instructions[1]
         IN ScanTimelockImmediate(Tail(instructions),
               IF ins.kind = "op" THEN [st EXCEPT !.last_op = ins.name]
               ELSE IF st.last_op = "OP_CHECKSIGVERIFY"
               THEN IF shl_overflows(ins.bytes) /\ overflow_checks
                    THEN [st EXCEPT !.panic = TRUE]
                    ELSE [st EXCEPT !.timelock =
                            [lock_time |-> bytes_to_u32_little_endian(ins.bytes)],
                                    !.last_op = "push"]
               ELSE st,
               overflow_checks)

\* for instruction in refund_instructions { ... }: an opcode becomes
\* last_op, a push met while last_op is OP_CHECKSIGVERIFY is decoded into
\* timelock; st = [last_op, timelock, panic]
RECURSIVE scan_timelock(_, _, _)
scan_timelock(instructions, st, overflow_checks) ==
    IF instructions = <<>> \/ st.panic THEN st
    ELSE LET ins == instructions[1]
         IN scan_timelock(Tail(instructions),
               IF ins.kind = "op" THEN [st EXCEPT !.last_op = ins.name]
               ELSE IF st.last_op = "OP_CHECKSIGVERIFY"
               THEN IF shl_overflows(ins.bytes) /\ overflow_checks
                    THEN [st EXCEPT !.panic = TRUE]
                    ELSE [st EXCEPT !.timelock =
                            [lock_time |-> bytes_to_u32_little_endian(ins.bytes)]]
               ELSE st,
               overflow_checks)

\* the common body of the three constructors up to the funding address
parse_swap_tree(resp, overflow_checks) ==
    LET hashlock == scan_hashlock(resp.claim_leaf, None)
        scan == scan_timelock(resp.refund_leaf,
                              [last_op |-> "OP_0", timelock |-> None, panic |-> FALSE],
                              overflow_checks)
    IN IF scan.panic THEN Err("panic")
       ELSE IF hashlock = None THEN Err("Protocol")
       ELSE IF scan.timelock = None THEN Err("Protocol")
       ELSE IF resp.address = None THEN Err("Address")
       ELSE Ok([hashlock |-> hashlock.hash, locktime |-> scan.timelock.lock_time,
                funding_addrs |-> resp.address])

\* the BtcSwapScript literal of a constructor
script_of(tree, swap_type, side, sender_pubkey, receiver_pubkey) ==
    IF ~ tree.ok THEN tree
    ELSE Ok([swap_type |-> swap_type, side |-> side,
             funding_addrs |-> tree.val.funding_addrs,
             hashlock |-> tree.val.hashlock, receiver_pubkey |-> receiver_pubkey,
             locktime |-> tree.val.locktime, sender_pubkey |-> sender_pubkey])

\* BtcSwapScript::submarine_from_swap_resp(response, our_pubkey)
submarine_from_swap_resp(resp, our_pubkey, overflow_checks) ==
    script_of(parse_swap_tree(resp, overflow_checks), "Submarine", "None",
              our_pubkey, resp.service_pubkey)

\* BtcSwapScript::reverse_from_swap_resp(response, our_pubkey)
reverse_from_swap_resp(resp, our_pubkey, overflow_checks) ==
    script_of(parse_swap_tree(resp, overflow_checks), "ReverseSubmarine", "None",
              resp.service_pubkey, our_pubkey)

\* a chain_from_swap_resp that makes the caller the sender on either side
ChainRolesIgnoringSide(side, resp, our_pubkey, overflow_checks) ==
    script_of(parse_swap_tree(resp, overflow_checks), "Chain", side,
              our_pubkey, resp.service_pubkey)

\* BtcSwapScript::chain_from_swap_resp(side, details, our_pubkey)
chain_from_swap_resp(side, resp, our_pubkey, overflow_checks) ==
    script_of(parse_swap_tree(resp, overflow_checks), "Chain", side,
              IF side = "Lockup" THEN our_pubkey ELSE resp.service_pubkey,
              IF side = "Lockup" THEN resp.service_pubkey ELSE our_pubkey)

ParseIdle ==
    /\ swap_resp = None
    /\ parse_pc = "idle"
    /\ parsed = Err("none")

ParseInit ==
    /\ swap_resp \in [claim_leaf : SeqsUpTo(ClaimLeafItems, MaxLeaf),
                      refund_leaf : RefundLeaves,
                      address : ResponseAddresses,
                      service_pubkey : {BoltzKey}]
    /\ parse_pc = "ready"
    /\ parsed = Err("none")

SubmarineFromSwapResp(overflow_checks) ==
    /\ parse_pc = "ready"
    /\ parse_pc' = "submarine"
    /\ parsed' = submarine_from_swap_resp(swap_resp, OurKey, overflow_checks)
    /\ UNCHANGED swap_resp
    /\ UNCHANGED parseRest

ReverseFromSwapResp(overflow_checks) ==
    /\ parse_pc = "ready"
    /\ parse_pc' = "reverse"
    /\ parsed' = reverse_from_swap_resp(swap_resp, OurKey, overflow_checks)
    /\ UNCHANGED swap_resp
    /\ UNCHANGED parseRest

ChainFromSwapResp(side, overflow_checks) ==
    /\ parse_pc = "ready"
    /\ parse_pc' = "chain"
    /\ parsed' = chain_from_swap_resp(side, swap_resp, OurKey, overflow_checks)
    /\ UNCHANGED swap_resp
    /\ UNCHANGED parseRest

ParseNext ==
    \/ \E overflow_checks \in BOOLEAN : SubmarineFromSwapResp(overflow_checks)
    \/ \E overflow_checks \in BOOLEAN : ReverseFromSwapResp(overflow_checks)
    \/ \E side \in {"Lockup", "Claim"}, overflow_checks \in BOOLEAN :
          ChainFromSwapResp(side, overflow_checks)

\* ========================================================================
\* Constructing a BtcSwapTx: new_claim, new_refund
\* ========================================================================

\* the scripts the constructors are called on: every swap type and side,
\* without a funding address or with a mainnet one of either key order
NewScripts ==
    {sc \in SwapScripts :
        /\ sc.locktime = u32_word(500)
        /\ sc.sender_pubkey = OurKey
        /\ sc.funding_addrs # None => sc.funding_addrs.network = "Bitcoin"}

\* the claim / refund address strings: None does not parse; a parsed
\* Address<NetworkUnchecked> is described by the networks it is valid for
\* (mainnet; bech32 testnet; bech32 regtest; a legacy test address, valid
\* for testnet and regtest alike)
OutputAddresses ==
    {None,
     [valid_for |-> {"Bitcoin"}],
     [valid_for |-> {"Testnet"}],
     [valid_for |-> {"Regtest"}],
     [valid_for |-> {"Testnet", "Regtest"}]}

\* Address::is_valid_for_network
is_valid_for_network(address, network) == network \in address.valid_for

\* the match on network_config.network() in new_claim and new_refund
config_network(chain) ==
    CASE chain = "Bitcoin" -> "Bitcoin"
      [] chain = "BitcoinTestnet" -> "Testnet"
      [] OTHER -> "Regtest"

\* what the Electrum server holds for the script of the swap: it cannot be
\* reached, or it answers script_get_history with these entries (OurScript
\* stands for the script_pubkey of the swap's address)
ElectrumStates ==
    {[up |-> FALSE, history |-> <<>>],
     [up |-> TRUE, history |-> <<>>],
     [up |-> TRUE, history |-> <<GetHistoryRes("t2", 100)>>],
     [up |-> TRUE, history |-> <<GetHistoryRes("t1", 100)>>],
     [up |-> TRUE, history |-> <<GetHistoryRes("t1", 100), GetHistoryRes("t2", 0)>>],
     [up |-> TRUE, history |-> <<GetHistoryRes("t1", 100), GetHistoryRes("t2", 100),
                                 GetHistoryRes("t3", 100)>>]}

\* electrum_client.batch_transaction_get
batch_transaction_get(hist) ==
    [i \in 1..Len(hist) |-> CHOOSE t \in TxPool : t.id = hist[i].tx_hash]

\* BtcSwapScript::fetch_utxos
fetch_utxos(sc, chain, el) ==
    IF ~ el.up THEN Err("Electrum")
    ELSE LET address == to_address(sc, chain)
         IN IF ~ address.ok THEN Err(address.err)
            ELSE Ok(fetch_utxos_core(batch_transaction_get(el.history), el.history,
                                     OurScript))

\* what the service answers to get_chain_txs / get_reverse_tx /
\* get_submarine_tx: an error, no lock transaction yet (Chain swaps), a
\* transaction without hex, or the hex of a transaction
ServiceStates ==
    {[answer |-> "error", tx |-> None],
     [answer |-> "no_lock", tx |-> None],
     [answer |-> "no_hex", tx |-> None],
     [answer |-> "hex", tx |-> CHOOSE t \in TxPool : t.id = "t1"],
     [answer |-> "hex", tx |-> CHOOSE t \in TxPool : t.id = "t2"]}

\* the first output of tx paying s, as Some((outpoint, output)), or None
RECURSIVE first_paying(_, _, _)
first_paying(tx, s, k) ==
    IF k > Len(tx.output) THEN None
    ELSE IF tx.output[k].script_pubkey = s
    THEN [some |-> <<OutPoint(compute_txid(tx), k - 1), tx.output[k]>>]
    ELSE first_paying(tx, s, k + 1)

\* BtcSwapScript::fetch_lockup_utxo_boltz
fetch_lockup_utxo_boltz(sc, chain, sv) ==
    IF sv.answer = "error" THEN Err("HTTP")
    ELSE IF sv.answer = "no_lock" THEN Err("Protocol")
    ELSE IF sv.answer = "no_hex" THEN Err("Hex")
    ELSE LET address == to_address(sc, chain)
         IN IF ~ address.ok THEN Err(address.err)
            ELSE Ok(first_paying(sv.tx, OurScript, 1))

\* BtcSwapTx { kind, swap_script, output_address, utxos }
BtcSwapTx(kind, output_address, utxos) ==
    [kind |-> "swap_tx",
     tx |-> [kind |-> kind, output_address |-> output_address, utxos |-> utxos]]

\* BtcSwapTx::new_claim: the value of address.is_valid_for_network(network)
\* is dropped
new_claim(sc, claim_address, chain, el, sv) ==
    IF sc.swap_type = "Submarine"
    THEN [result |-> ErrResult("Protocol"), contacted |-> <<>>]
    ELSE IF claim_address = None
    THEN [result |-> ErrResult("AddressParse"), contacted |-> <<>>]
    ELSE LET fetched == fetch_utxos(sc, chain, el)
             fallback == fetch_lockup_utxo_boltz(sc, chain, sv)
         IN IF fetched.ok
            THEN [result |->
                     IF fetched.val = <<>> THEN ErrResult("Protocol")
                     ELSE OkResult(BtcSwapTx("Claim", claim_address, <<fetched.val[1]>>)),
                  contacted |-> <<"electrum">>]
            ELSE [result |->
                     IF ~ fallback.ok THEN ErrResult(fallback.err)
                     ELSE IF fallback.val = None THEN ErrResult("Protocol")
                     ELSE OkResult(BtcSwapTx("Claim", claim_address, <<fallback.val.some>>)),
                  contacted |-> <<"electrum", "service">>]

\* a new_refund that accepts every swap type
NewRefundAnyType(sc, refund_address, chain, el, sv) ==
    IF refund_address = None
    THEN [result |-> ErrResult("AddressParse"), contacted |-> <<>>]
    ELSE IF ~ is_valid_for_network(refund_address, config_network(chain))
    THEN [result |-> ErrResult("Address"), contacted |-> <<>>]
    ELSE LET fetched == fetch_utxos(sc, chain, el)
             fallback == fetch_lockup_utxo_boltz(sc, chain, sv)
             utxos == IF fetched.ok THEN fetched.val
                      ELSE IF fallback.ok /\ fallback.val # None
                      THEN <<fallback.val.some>>
                      ELSE <<>>
         IN [result |->
                IF ~ fetched.ok /\ ~ fallback.ok THEN ErrResult(fallback.err)
                ELSE IF utxos = <<>> THEN ErrResult("Protocol")
                ELSE OkResult(BtcSwapTx("Refund", refund_address, utxos)),
             contacted |-> IF fetched.ok THEN <<"electrum">> ELSE <<"electrum", "service">>]

\* BtcSwapTx::new_refund
new_refund(sc, refund_address, chain, el, sv) ==
    IF sc.swap_type = "ReverseSubmarine"
    THEN [result |-> ErrResult("Protocol"), contacted |-> <<>>]
    ELSE IF refund_address = None
    THEN [result |-> ErrResult("AddressParse"), contacted |-> <<>>]
    ELSE IF ~ is_valid_for_network(refund_address, config_network(chain))
    THEN [result |-> ErrResult("Address"), contacted |-> <<>>]
    ELSE LET fetched == fetch_utxos(sc, chain, el)
             fallback == fetch_lockup_utxo_boltz(sc, chain, sv)
             utxos == IF fetched.ok THEN fetched.val
                      ELSE IF fallback.ok /\ fallback.val # None
                      THEN <<fallback.val.some>>
                      ELSE <<>>
         IN [result |->
                IF ~ fetched.ok /\ ~ fallback.ok THEN ErrResult(fallback.err)
                ELSE IF utxos = <<>> THEN ErrResult("Protocol")
                ELSE OkResult(BtcSwapTx("Refund", refund_address, utxos)),
             contacted |-> IF fetched.ok THEN <<"electrum">> ELSE <<"electrum", "service">>]

NoCall == [op |-> "none"]

NewIdle ==
    /\ new_script = None
    /\ electrum = None
    /\ service = None
    /\ new_call = NoCall
    /\ new_pc = "idle"
    /\ contacted = <<>>
    /\ new_result = NoResult

\* the service has a "no lock transaction" answer for Chain swaps only
NewInit ==
    /\ new_script \in NewScripts
    /\ electrum \in ElectrumStates
    /\ service \in {sv \in ServiceStates :
                       sv.answer = "no_lock" => new_script.swap_type = "Chain"}
    /\ new_call = NoCall
    /\ new_pc = "ready"
    /\ contacted = <<>>
    /\ new_result = NoResult

NewClaim(claim_address, chain) ==
    /\ new_pc = "ready"
    /\ new_call' = [op |-> "new_claim", address |-> claim_address, chain |-> chain]
    /\ LET out == new_claim(new_script, claim_address, chain, electrum, service)
       IN /\ new_result' = out.result
          /\ contacted' = out.contacted
    /\ new_pc' = "done"
    /\ UNCHANGED <<new_script, electrum, service>>
    /\ UNCHANGED newRest

NewRefund(refund_address, chain) ==
    /\ new_pc = "ready"
    /\ new_call' = [op |-> "new_refund", address |-> refund_address, chain |-> chain]
    /\ LET out == new_refund(new_script, refund_address, chain, electrum, service)
       IN /\ new_result' = out.result
          /\ contacted' = out.contacted
    /\ new_pc' = "done"
    /\ UNCHANGED <<new_script, electrum, service>>
    /\ UNCHANGED newRest

NewNext ==
    \/ \E claim_address \in OutputAddresses, chain \in Chains : NewClaim(claim_address, chain)
    \/ \E refund_address \in OutputAddresses, chain \in Chains : NewRefund(refund_address, chain)

\* ========================================================================
\* Preimage (util/secrets.rs)
\* ========================================================================

\* the length of [u8; 32]
PreimageLen == 32

\* a string is the sequence of its characters
HexLower == <<"0", "1", "2", "3", "4", "5", "6", "7", "8", "9", "a", "b", "c", "d", "e", "f">>
HexUpper == <<"0", "1", "2", "3", "4", "5", "6", "7", "8", "9", "A", "B", "C", "D", "E", "F">>

\* an encoder that prints a byte without its leading zero, as {:x} does
RECURSIVE ToHexUnpadded(_)
ToHexUnpadded(bytes) ==
    IF bytes = <<>> THEN <<>>
    ELSE (IF bytes[1] < 16 THEN <<HexLower[bytes[1] + 1]>>
          ELSE <<HexLower[(bytes[1] \div 16) + 1], HexLower[(bytes[1] % 16) + 1]>>)
         \o ToHexUnpadded(Tail(bytes))

\* DisplayHex::to_lower_hex_string: two lower-case digits per byte
RECURSIVE to_lower_hex_string(_)
to_lower_hex_string(bytes) ==
    IF bytes = <<>> THEN <<>>
    ELSE <<HexLower[(bytes[1] \div 16) + 1], HexLower[(bytes[1] % 16) + 1]>>
         \o to_lower_hex_string(Tail(bytes))

is_hex_digit(c) == \E i \in 1..16 : HexLower[i] = c \/ HexUpper[i] = c

hex_digit_value(c) == (CHOOSE i \in 1..16 : HexLower[i] = c \/ HexUpper[i] = c) - 1

RECURSIVE hex_pairs(_)
hex_pairs(str) ==
    IF str = <<>> THEN <<>>
    ELSE <<16 * hex_digit_value(str[1]) + hex_digit_value(str[2])>>
         \o hex_pairs(SubSeq(str, 3, Len(str)))

\* Vec::from_hex: an odd length or a character that is no hex digit is an
\* error; both cases of the letters are accepted
from_hex(str) ==
    IF Len(str) % 2 = 1 THEN Err("Hex")
    ELSE IF \E i \in 1..Len(str) : ~ is_hex_digit(str[i]) THEN Err("Hex")
    ELSE Ok(hex_pairs(str))

\* sha256::Hash::hash and hash160::Hash::hash (RIPEMD160 of SHA256), as
\* terms over their input
sha256_hash(bytes) == [sha256 |-> bytes]
hash160_hash(bytes) == [ripemd160 |-> sha256_hash(bytes)]

\* a from_vec that keeps the first 32 bytes of a longer input
FromVecTruncating(preimage) ==
    IF Len(preimage) < PreimageLen THEN Err("Protocol")
    ELSE LET head == SubSeq(preimage, 1, PreimageLen)
         IN Ok([bytes |-> [some |-> head], sha256 |-> sha256_hash(head),
                hash160 |-> hash160_hash(head)])

\* Preimage::from_vec
from_vec(preimage) ==
    IF Len(preimage) # PreimageLen THEN Err("Protocol")
    ELSE Ok([bytes |-> [some |-> preimage], sha256 |-> sha256_hash(preimage),
             hash160 |-> hash160_hash(preimage)])

\* <Preimage as FromStr>::from_str
from_str(preimage) ==
    LET decoded == from_hex(preimage)
    IN IF ~ decoded.ok THEN Err(decoded.err) ELSE from_vec(decoded.val)

\* Preimage::to_string
to_string(p) ==
    IF p.bytes = None THEN None ELSE [some |-> to_lower_hex_string(p.bytes.some)]

\* a byte string handed to from_sha256_vec: explicit bytes, [raw |-> v], or
\* the 32 bytes of a digest, the term of that digest
Raw(v) == [raw |-> v]
byte_len(x) == IF "raw" \in DOMAIN x THEN Len(x.raw) ELSE PreimageLen

\* ripemd160::Hash::hash, as a term over its input
ripemd160_hash(x) == [ripemd160 |-> x]

\* a from_sha256_vec that takes hash160::Hash::hash of the digest, which
\* hashes it with SHA256 once more
FromSha256VecRehashed(preimage_sha256) ==
    IF byte_len(preimage_sha256) # PreimageLen THEN Err("FromSlice")
    ELSE Ok([bytes |-> None, sha256 |-> preimage_sha256,
             hash160 |-> ripemd160_hash([sha256 |-> preimage_sha256])])

\* Preimage::from_sha256_vec: sha256::Hash::from_slice fails unless the
\* slice has 32 bytes
from_sha256_vec(preimage_sha256) ==
    IF byte_len(preimage_sha256) # PreimageLen THEN Err("FromSlice")
    ELSE Ok([bytes |-> None, sha256 |-> preimage_sha256,
             hash160 |-> ripemd160_hash(preimage_sha256)])

\* Preimage::from_sha256_str
from_sha256_str(preimage_sha256) ==
    LET decoded == from_hex(preimage_sha256)
    IN IF ~ decoded.ok THEN Err(decoded.err) ELSE from_sha256_vec(Raw(decoded.val))

\* the byte vectors drawn: of 0, 1, 31, 32 and 33 bytes, all bytes equal but
\* the first
PreimageVecs ==
    {[i \in 1..n |-> IF i = 1 THEN b ELSE c] :
        n \in {0, 1, PreimageLen - 1, PreimageLen, PreimageLen + 1},
        b \in {0, 10, 171, 255}, c \in {0, 10, 255}}

\* the strings drawn: the lower-case and upper-case hex of the vectors, the
\* same with the last character removed or replaced by "g"
PreimageStrs ==
    LET upper(str) == [i \in 1..Len(str) |-> HexUpper[hex_digit_value(str[i]) + 1]]
        hexes == {to_lower_hex_string(v) : v \in PreimageVecs}
        cut == {SubSeq(h, 1, Len(h) - 1) : h \in hexes \ {<<>>}}
        bad == {[h EXCEPT ![Len(h)] = "g"] : h \in hexes \ {<<>>}}
    IN hexes \cup {upper(h) : h \in hexes} \cup cut \cup bad

PreIdle ==
    /\ pre_arg = None
    /\ pre_pc = "idle"
    /\ pre_result = Err("none")
    /\ pre_orig = None

PreInit ==
    /\ pre_arg \in {[kind |-> "vec", val |-> v] : v \in PreimageVecs}
                   \cup {[kind |-> "str", val |-> str] : str \in PreimageStrs}
                   \cup {[kind |-> "rng", val |-> <<>>]}
                   \cup {[kind |-> "sha256_vec", val |-> Raw(v)] : v \in PreimageVecs}
                   \cup {[kind |-> "sha256_str", val |-> str] : str \in PreimageStrs}
    /\ pre_pc = "ready"
    /\ pre_result = Err("none")
    /\ pre_orig = None

\* Preimage::new(): rng_32b() draws the 32 bytes
PreimageNew(rng_32b) ==
    /\ pre_pc = "ready"
    /\ pre_arg.kind = "rng"
    /\ pre_result' = Ok([bytes |-> [some |-> rng_32b], sha256 |-> sha256_hash(rng_32b),
                         hash160 |-> hash160_hash(rng_32b)])
    /\ pre_pc' = "done"
    /\ UNCHANGED <<pre_arg, pre_orig>>
    /\ UNCHANGED preRest

PreimageFromVec ==
    /\ pre_pc = "ready"
    /\ pre_arg.kind = "vec"
    /\ pre_result' = from_vec(pre_arg.val)
    /\ pre_pc' = "done"
    /\ UNCHANGED <<pre_arg, pre_orig>>
    /\ UNCHANGED preRest

PreimageFromStr ==
    /\ pre_pc = "ready"
    /\ pre_arg.kind = "str"
    /\ pre_result' = from_str(pre_arg.val)
    /\ pre_pc' = "done"
    /\ UNCHANGED <<pre_arg, pre_orig>>
    /\ UNCHANGED preRest

\* the caller takes p.bytes of a preimage it holds and passes it to from_vec
PreimageTakeBytes ==
    /\ pre_pc = "done"
    /\ pre_orig = None
    /\ pre_result.ok
    /\ pre_result.val.bytes # None
    /\ pre_orig' = pre_result.val
    /\ pre_arg' = [kind |-> "vec", val |-> pre_result.val.bytes.some]
    /\ pre_result' = Err("none")
    /\ pre_pc' = "ready"
    /\ UNCHANGED preRest

\* the caller takes p.to_string() of a preimage it holds and passes it to
\* from_str
PreimageToString ==
    /\ pre_pc = "done"
    /\ pre_orig = None
    /\ pre_result.ok
    /\ to_string(pre_result.val) # None
    /\ pre_orig' = pre_result.val
    /\ pre_arg' = [kind |-> "str", val |-> to_string(pre_result.val).some]
    /\ pre_result' = Err("none")
    /\ pre_pc' = "ready"
    /\ UNCHANGED preRest

PreimageFromSha256Vec ==
    /\ pre_pc = "ready"
    /\ pre_arg.kind = "sha256_vec"
    /\ pre_result' = from_sha256_vec(pre_arg.val)
    /\ pre_pc' = "done"
    /\ UNCHANGED <<pre_arg, pre_orig>>
    /\ UNCHANGED preRest

PreimageFromSha256Str ==
    /\ pre_pc = "ready"
    /\ pre_arg.kind = "sha256_str"
    /\ pre_result' = from_sha256_str(pre_arg.val)
    /\ pre_pc' = "done"
    /\ UNCHANGED <<pre_arg, pre_orig>>
    /\ UNCHANGED preRest

\* the caller takes the bytes of p.sha256 of a full preimage it holds and
\* passes them to from_sha256_vec
PreimageTakeSha256 ==
    /\ pre_pc = "done"
    /\ pre_orig = None
    /\ pre_result.ok
    /\ pre_result.val.bytes # None
    /\ pre_orig' = pre_result.val
    /\ pre_arg' = [kind |-> "sha256_vec", val |-> pre_result.val.sha256]
    /\ pre_result' = Err("none")
    /\ pre_pc' = "ready"
    /\ UNCHANGED preRest

PreNext ==
    \/ \E rng_32b \in {v \in PreimageVecs : Len(v) = PreimageLen} : PreimageNew(rng_32b)
    \/ PreimageFromVec
    \/ PreimageFromStr
    \/ PreimageTakeBytes
    \/ PreimageToString
    \/ PreimageFromSha256Vec
    \/ PreimageFromSha256Str
    \/ PreimageTakeSha256

\* ========================================================================
\* The UTXO selectors of the chain clients
\* ========================================================================

\* ElectrumBitcoinClient::fetch_utxos_core(txs, history, spk)
electrum_fetch_utxos_core(T, hist, s) ==
    flat_map_from(T, tx_is_confirmed_map(hist), s, 1)

\* the address Esplora prints for a script (tests::test_utxo_fetching)
script_address(s) == IF s = OurScript THEN "test_address" ELSE "other_address"

\* lower-case hex of a txid or of a script, and its decoding
to_hex(v) == [hex |-> v]
Txid_from_str(str) ==
    IF str.hex \in TxIds \cup {NullOutPoint.txid} THEN Ok(str.hex) ELSE Err("Esplora")
ScriptBuf_from_hex(str) ==
    IF str.hex \in Scripts THEN Ok(str.hex) ELSE Err("Esplora")

\* esplora::Transaction { txid, vin, vout, status } of a transaction
EsploraTransaction(tx, confirmed) ==
    [txid |-> to_hex(compute_txid(tx)),
     vin |-> [k \in 1..Len(tx.input) |->
                [txid |-> to_hex(tx.input[k].txid), vout |-> tx.input[k].vout]],
     vout |-> [k \in 1..Len(tx.output) |->
                 [scriptpubkey |-> to_hex(tx.output[k].script_pubkey),
                  scriptpubkey_address |-> script_address(tx.output[k].script_pubkey),
                  value |-> tx.output[k].value]],
     status |-> [confirmed |-> confirmed]]

\* spending_tx.vin.iter().any(|input| input.txid == tx.txid && input.vout == vout)
esplora_spends_our_output(spending_tx, tx, vout) ==
    \E k \in 1..Len(spending_tx.vin) :
        /\ spending_tx.vin[k].txid = tx.txid
        /\ spending_tx.vin[k].vout = vout

\* an is_spent that counts the spenders of the mempool too
EsploraSpentIgnoringStatus(T, tx, vout) ==
    \E j \in 1..Len(T) : esplora_spends_our_output(T[j], tx, vout)

\* let is_spent = txs.iter().any(|spending_tx| spends_our_output &&
\* spending_tx.status.confirmed)
esplora_is_spent(T, tx, vout) ==
    \E j \in 1..Len(T) :
        /\ esplora_spends_our_output(T[j], tx, vout)
        /\ T[j].status.confirmed

\* the two nested loops, at transaction i and output k (1-based; vout is
\* k - 1), with the pairs pushed so far
RECURSIVE esplora_loop(_, _, _, _, _)
esplora_loop(T, address, i, k, pairs) ==
    IF i > Len(T) THEN Ok(pairs)
    ELSE IF k > Len(T[i].vout) THEN esplora_loop(T, address, i + 1, 1, pairs)
    ELSE LET output == T[i].vout[k]
             txid == Txid_from_str(T[i].txid)
             script_pubkey == ScriptBuf_from_hex(output.scriptpubkey)
         IN IF output.scriptpubkey_address # address
            THEN esplora_loop(T, address, i, k + 1, pairs)
            ELSE IF esplora_is_spent(T, T[i], k - 1)
            THEN esplora_loop(T, address, i, k + 1, pairs)
            ELSE IF ~ txid.ok THEN txid
            ELSE IF ~ script_pubkey.ok THEN script_pubkey
            ELSE esplora_loop(T, address, i, k + 1,
                    Append(pairs, <<OutPoint(txid.val, k - 1),
                                    TxOut(output.value, script_pubkey.val)>>))

\* EsploraBitcoinClient::fetch_utxos_core(txs, address)
esplora_fetch_utxos_core(T, address) == esplora_loop(T, address, 1, 1, <<>>)

SelIdle ==
    /\ sel_txs = <<>>
    /\ sel_history = <<>>
    /\ sel_spk = OurScript
    /\ sel_esplora_txs = <<>>
    /\ sel_address = script_address(OurScript)
    /\ sel_script_pairs = None
    /\ sel_electrum_pairs = None
    /\ sel_esplora_result = Err("none")

\* the same transactions seen by both servers: Esplora reports a
\* transaction as confirmed exactly when its history height is above 0
SelInit ==
    /\ sel_txs \in SeqsUpTo(TxPool, MaxTxs)
    /\ sel_history \in Histories
    /\ sel_spk \in Scripts
    /\ sel_esplora_txs =
          [i \in 1..Len(sel_txs) |->
             EsploraTransaction(sel_txs[i],
                \E e \in Range(sel_history) :
                   e.tx_hash = compute_txid(sel_txs[i]) /\ e.height > 0)]
    /\ sel_address = script_address(sel_spk)
    /\ sel_script_pairs = None
    /\ sel_electrum_pairs = None
    /\ sel_esplora_result = Err("none")

SelScriptFetchUtxosCore ==
    /\ sel_script_pairs = None
    /\ sel_script_pairs' = [some |-> fetch_utxos_core(sel_txs, sel_history, sel_spk)]
    /\ UNCHANGED <<sel_txs, sel_history, sel_spk, sel_esplora_txs, sel_address,
                   sel_electrum_pairs, sel_esplora_result>>
    /\ UNCHANGED selRest

ElectrumFetchUtxosCore ==
    /\ sel_electrum_pairs = None
    /\ sel_electrum_pairs' =
          [some |-> electrum_fetch_utxos_core(sel_txs, sel_history, sel_spk)]
    /\ UNCHANGED <<sel_txs, sel_history, sel_spk, sel_esplora_txs, sel_address,
                   sel_script_pairs, sel_esplora_result>>
    /\ UNCHANGED selRest

EsploraFetchUtxosCore ==
    /\ sel_esplora_result = Err("none")
    /\ sel_esplora_result' = esplora_fetch_utxos_core(sel_esplora_txs, sel_address)
    /\ UNCHANGED <<sel_txs, sel_history, sel_spk, sel_esplora_txs, sel_address,
                   sel_script_pairs, sel_electrum_pairs>>
    /\ UNCHANGED selRest

SelNext ==
    \/ SelScriptFetchUtxosCore
    \/ ElectrumFetchUtxosCore
    \/ EsploraFetchUtxosCore

\* ========================================================================
\* ElectrumConfig and EsploraConfig
\* ========================================================================

ConfigClients == {"electrum", "esplora"}

\* the url a caller passes for a regtest server
RegtestUrls == {"localhost:19001", "localhost:3002"}

\* DEFAULT_MAINNET_NODE .. DEFAULT_LIQUID_MAINNET_NODE of the client
default_node(client, chain) ==
    IF client = "electrum"
    THEN CASE chain = "Bitcoin" -> "wes.bullbitcoin.com:50002"
           [] chain = "BitcoinTestnet" -> "electrum.blockstream.info:60002"
           [] chain = "Liquid" -> "blockstream.info:995"
           [] chain = "LiquidTestnet" -> "blockstream.info:465"
    ELSE CASE chain = "Bitcoin" -> "https://blockstream.info/api"
           [] chain = "BitcoinTestnet" -> "https://blockstream.info/testnet/api"
           [] chain = "Liquid" -> "https://blockstream.info/liquid/api"
           [] chain = "LiquidTestnet" -> "https://blockstream.info/liquidtestnet/api"

\* ElectrumConfig::new / EsploraConfig::new with the default timeout
config_new(client, network, url) ==
    [client |-> client, network |-> network, url |-> url,
     timeout |-> IF client = "electrum" THEN 10 ELSE 30]

\* ElectrumConfig::default / EsploraConfig::default(chain, regtest_url)
config_default(client, chain, regtest_url) ==
    IF chain \in {"LiquidRegtest", "BitcoinRegtest"} /\ regtest_url = None
    THEN Err(IF client = "electrum" THEN "Electrum" ELSE "Esplora")
    ELSE CASE chain = "Bitcoin" ->
                 Ok(config_new(client, "Bitcoin", default_node(client, "Bitcoin")))
           [] chain = "BitcoinTestnet" ->
                 Ok(config_new(client, "BitcoinTestnet",
                               default_node(client, "BitcoinTestnet")))
           [] chain = "BitcoinRegtest" ->
                 Ok(config_new(client, "BitcoinTestnet", regtest_url.some))
           [] chain = "Liquid" ->
                 Ok(config_new(client, "Liquid", default_node(client, "Liquid")))
           [] chain = "LiquidTestnet" ->
                 Ok(config_new(client, "LiquidTestnet",
                               default_node(client, "LiquidTestnet")))
           [] chain = "LiquidRegtest" ->
                 Ok(config_new(client, "BitcoinTestnet", regtest_url.some))

\* default_bitcoin() and default_liquid()
default_bitcoin(client) ==
    config_new(client, "BitcoinTestnet", default_node(client, "BitcoinTestnet"))
default_liquid(client) ==
    config_new(client, "LiquidTestnet", default_node(client, "LiquidTestnet"))

\* BitcoinNetworkConfig::network / LiquidNetworkConfig::network
network(config) == config.network

CfgIdle ==
    /\ cfg_client = "electrum"
    /\ cfg_chain = "Bitcoin"
    /\ cfg_url = None
    /\ cfg_call = "none"
    /\ cfg_pc = "idle"
    /\ cfg_result = Err("none")
    /\ cfg_network = None

CfgInit ==
    /\ cfg_client \in ConfigClients
    /\ cfg_chain \in Chains
    /\ cfg_url \in {None} \cup {[some |-> u] : u \in RegtestUrls}
    /\ cfg_call = "none"
    /\ cfg_pc = "ready"
    /\ cfg_result = Err("none")
    /\ cfg_network = None

ConfigDefault ==
    /\ cfg_pc = "ready"
    /\ cfg_call' = "default"
    /\ cfg_result' = config_default(cfg_client, cfg_chain, cfg_url)
    /\ cfg_pc' = "built"
    /\ UNCHANGED <<cfg_client, cfg_chain, cfg_url, cfg_network>>
    /\ UNCHANGED cfgRest

ConfigDefaultBitcoin ==
    /\ cfg_pc = "ready"
    /\ cfg_call' = "default_bitcoin"
    /\ cfg_result' = Ok(default_bitcoin(cfg_client))
    /\ cfg_pc' = "built"
    /\ UNCHANGED <<cfg_client, cfg_chain, cfg_url, cfg_network>>
    /\ UNCHANGED cfgRest

ConfigDefaultLiquid ==
    /\ cfg_pc = "ready"
    /\ cfg_call' = "default_liquid"
    /\ cfg_result' = Ok(default_liquid(cfg_client))
    /\ cfg_pc' = "built"
    /\ UNCHANGED <<cfg_client, cfg_chain, cfg_url, cfg_network>>
    /\ UNCHANGED cfgRest

ConfigNetwork ==
    /\ cfg_pc = "built"
    /\ cfg_result.ok
    /\ cfg_network' = [some |-> network(cfg_result.val)]
    /\ cfg_pc' = "asked"
    /\ UNCHANGED <<cfg_client, cfg_chain, cfg_url, cfg_call, cfg_result>>
    /\ UNCHANGED cfgRest

CfgNext ==
    \/ ConfigDefault
    \/ ConfigDefaultBitcoin
    \/ ConfigDefaultLiquid
    \/ ConfigNetwork

\* ========================================================================
\* Specifications: one per part of the program, the other parts at rest
\* ========================================================================

InitUtxo == UtxoInit /\ RetryIdle /\ SignIdle /\ ParseIdle /\ NewIdle /\ PreIdle /\ SelIdle /\ CfgIdle

SpecUtxo == InitUtxo /\ [][UtxoNext]_vars

InitRetry == RetryInit /\ UtxoIdle /\ SignIdle /\ ParseIdle /\ NewIdle /\ PreIdle /\ SelIdle /\ CfgIdle

SpecRetry == InitRetry /\ [][RetryNext]_vars

InitSign == SignInit /\ UtxoIdle /\ RetryIdle /\ ParseIdle /\ NewIdle /\ PreIdle /\ SelIdle /\ CfgIdle

SpecSign == InitSign /\ [][SignNext]_vars

InitParse == ParseInit /\ UtxoIdle /\ RetryIdle /\ SignIdle /\ NewIdle /\ PreIdle /\ SelIdle /\ CfgIdle

SpecParse == InitParse /\ [][ParseNext]_vars

InitNew == NewInit /\ UtxoIdle /\ RetryIdle /\ SignIdle /\ ParseIdle /\ PreIdle /\ SelIdle /\ CfgIdle

SpecNew == InitNew /\ [][NewNext]_vars

InitPre == PreInit /\ UtxoIdle /\ RetryIdle /\ SignIdle /\ ParseIdle /\ NewIdle /\ SelIdle /\ CfgIdle

SpecPre == InitPre /\ [][PreNext]_vars

InitSel == SelInit /\ UtxoIdle /\ RetryIdle /\ SignIdle /\ ParseIdle /\ NewIdle /\ PreIdle /\ CfgIdle

SpecSel == InitSel /\ [][SelNext]_vars

InitCfg == CfgInit /\ UtxoIdle /\ RetryIdle /\ SignIdle /\ ParseIdle /\ NewIdle /\ PreIdle /\ SelIdle

SpecCfg == InitCfg /\ [][CfgNext]_vars

\* ========================================================================
\* Claims
\* ========================================================================

\* ---- C1 ---------------------------------------------------------------

\* every (transaction position, vout) of T in order of T and then vout
RECURSIVE AllPositions(_, _)
AllPositions(T, i) ==
    IF i > Len(T) THEN <<>>
    ELSE [k \in 1..Len(T[i].output) |-> <<i, k - 1>>] \o AllPositions(T, i + 1)

\* H as the partial function txid -> height the history list denotes
HeightOf(hist, id) ==
    IF \E e \in Range(hist) : e.tx_hash = id
    THEN (CHOOSE e \in Range(hist) : e.tx_hash = id).height
    ELSE -1

\* the transactions of T that spend output p = <<i, vout>> of T
SpendersOf(T, p) ==
    {j \in 1..Len(T) : OutPoint(T[p[1]].id, p[2]) \in Range(T[j].input)}

PaysAndUnspent(T, hist, s, p) ==
    /\ T[p[1]].output[p[2] + 1].script_pubkey = s
    /\ \A j \in SpendersOf(T, p) : ~ (HeightOf(hist, T[j].id) > 0)

ExpectedUtxos(T, hist, s) ==
    LET keep(p) == PaysAndUnspent(T, hist, s, p)
        kept == SelectSeq(AllPositions(T, 1), keep)
    IN [n \in 1..Len(kept) |->
          <<OutPoint(T[kept[n][1]].id, kept[n][2]), T[kept[n][1]].output[kept[n][2] + 1]>>]

\* C1: the result of fetch_utxos_core is exactly the sequence, in order of T
\* and then vout, of the (outpoint, output) pairs that pay s and that no
\* transaction of T with height > 0 in H spends.
C1_UtxoSelector ==
    utxo_pc = "returned" => utxo_pairs = ExpectedUtxos(txs, history, spk)

\* C1 witness: a returned output that a mempool (height 0) transaction of T
\* spends, next to a transaction list that also holds a confirmed spender.
C1_Witness ==
    /\ utxo_pc = "returned"
    /\ \E n \in 1..Len(utxo_pairs), j \in 1..Len(txs) :
          /\ utxo_pairs[n][1] \in Range(txs[j].input)
          /\ HeightOf(history, txs[j].id) = 0
    /\ \E j \in 1..Len(txs) :
          /\ HeightOf(history, txs[j].id) > 0
          /\ \E i \in 1..Len(txs) : \E k \in 1..Len(txs[i].output) :
                /\ txs[i].output[k].script_pubkey = spk
                /\ OutPoint(txs[i].id, k - 1) \in Range(txs[j].input)

\* ---- shared by the claims on BtcSwapScript and BtcSwapTx ----------------

Done == sign_pc = "done"

DoneOp(op) == sign_pc = "done" /\ call.op = op

\* the aggregation order of the table of the specification
TableKeyOrder(s) ==
    IF s.swap_type = "ReverseSubmarine" \/ (s.swap_type = "Chain" /\ s.side = "Claim")
    THEN <<s.sender_pubkey, s.receiver_pubkey>>
    ELSE <<s.receiver_pubkey, s.sender_pubkey>>

\* the funding address is present and its key is not the recomputed one
KeyMismatch(s) ==
    /\ IsSome(s.funding_addrs)
    /\ s.funding_addrs.output_key #
          TapOutputKey(TableKeyOrder(s), claim_script(s), refund_script(s))

\* the network of the three Bitcoin chains
NetworkOfChain(chain) ==
    CASE chain = "Bitcoin" -> "Bitcoin"
      [] chain = "BitcoinTestnet" -> "Testnet"
      [] chain = "BitcoinRegtest" -> "Regtest"

BitcoinChains == {"Bitcoin", "BitcoinTestnet", "BitcoinRegtest"}

\* the positions of the events named ev
Positions(ev) == {p \in 1..Len(events) : events[p].ev = ev}

\* ---- C2 ---------------------------------------------------------------

\* C2 as claimed: with a funding address whose key differs from the
\* recomputed output key, to_address, sign_claim, sign_refund and partial_sign
\* all fail, and the error they return is a Protocol error.
C2_Original ==
    (Done /\ KeyMismatch(swap_script)) =>
        /\ result.status # "Ok"
        /\ result.status = "Err" => result.err = "Protocol"

\* C2 (amended): with a funding address whose key differs from the recomputed
\* output key, the service is never contacted and every call fails without
\* returning an address, a transaction or a partial signature; the failure
\* is a Protocol error, except that sign_refund fails with a Generic error
\* when the sum of the UTXO values is not above the fee and that sign_claim
\* panics on `value - fee` when the fee exceeds the value of the UTXO in a
\* build with overflow checks.
C2_Gating ==
    KeyMismatch(swap_script) =>
        /\ sent = <<>>
        /\ Done =>
             /\ result.status # "Ok"
             /\ result.ret = NoRet
             /\ \/ result.status = "Err" /\ result.err = "Protocol"
                \/ /\ call.op = "sign_refund"
                   /\ result.status = "Err" /\ result.err = "Generic"
                   /\ utxos_amount(swap_tx.utxos) <= call.fee
                \/ /\ call.op = "sign_claim"
                   /\ result.status = "Panic"
                   /\ swap_tx.utxos # <<>>
                   /\ call.fee > swap_tx.utxos[1][2].value

\* C2 witness: a cooperative sign_refund that passed the type, kind and fee
\* checks and stopped at the Taproot check before any nonce or request
C2_Witness ==
    /\ DoneOp("sign_refund")
    /\ KeyMismatch(swap_script)
    /\ call.coop = "Some"
    /\ swap_script.swap_type = "Submarine"
    /\ swap_tx.kind = "Refund"
    /\ utxos_amount(swap_tx.utxos) > call.fee
    /\ cur_tx # None
    /\ result.err = "Protocol"
    /\ nonce_ctr = 0

\* ---- C3 ---------------------------------------------------------------

PeerSigInvalid ==
    /\ loc.boltz_sig # None
    /\ ~ /\ loc.boltz_sig.signer = BoltzKey
         /\ loc.boltz_sig.pub_nonce = loc.boltz_nonce
         /\ loc.boltz_sig.session =
               MusigSession(loc.cache, MusigAggNonce(loc.boltz_nonce, loc.pub_nonce), loc.msg)

\* C4: once a partial signature that does not verify has been checked, the
\* cooperative call has failed with a Protocol error; no local partial
\* signature, no aggregate and no witness was made for that input and no
\* transaction is returned, whichever input it is.
C4_InvalidPartialSig ==
    (PeerSigInvalid /\ sign_pc # "verify_peer") =>
        /\ Done
        /\ result = ErrResult("Protocol")
        /\ \A p \in 1..Len(events) :
              events[p].input = input_index =>
                  events[p].ev \notin {"partial_sign", "aggregate", "verify_aggregate", "witness"}
        /\ events[Len(events)] = Event("verify_peer", input_index, 0)

\* C4 witness: the bad partial signature arrives for the second input of a
\* refund whose first input was already co-signed
C4_Witness ==
    /\ DoneOp("sign_refund")
    /\ PeerSigInvalid
    /\ input_index = 1
    /\ Positions("witness") # {}
    /\ result = ErrResult("Protocol")

\* ---- C5 ---------------------------------------------------------------

\* the order of the steps the claim lists
StepRank(ev) ==
    CASE ev = "nonce_gen" -> 1
      [] ev = "send" -> 2
      [] ev = "verify_peer" -> 3
      [] ev = "partial_sign" -> 4
      [] ev = "aggregate" -> 5
      [] ev = "verify_aggregate" -> 6
      [] ev = "witness" -> 7

\* C5: within a cooperative sign_claim / sign_refund the steps of each input
\* happen strictly in the order nonce generation, transmission, verification
\* of the service's partial signature, local signing, aggregation,
\* verification of the aggregate, witness; every request sent carries a
\* nonce generated before it, and the inputs are treated one after the other.
C5_StepOrder ==
    (call # None /\ call.op \in {"sign_claim", "sign_refund"}) =>
        /\ \A p \in 1..Len(events), q \in 1..Len(events) :
              p < q =>
                 \/ events[p].input < events[q].input
                 \/ /\ events[p].input = events[q].input
                    /\ StepRank(events[p].ev) < StepRank(events[q].ev)
        /\ \A q \in 1..Len(events) :
              (events[q].ev # "nonce_gen") =>
                 \E p \in 1..(q - 1) :
                    /\ events[p].input = events[q].input
                    /\ StepRank(events[p].ev) = StepRank(events[q].ev) - 1
        /\ Len(sent) = Cardinality(Positions("send"))
        /\ \A k \in 1..Len(sent) :
              \E p \in Positions("nonce_gen") :
                 /\ events[p].nonce = sent[k].pub_nonce.pub_nonce
                 /\ events[p].input = sent[k].index

\* C5 witness: a cooperative refund of two inputs ran all seven steps twice
C5_Witness ==
    /\ DoneOp("sign_refund")
    /\ result.status = "Ok"
    /\ Len(events) = 14
    /\ Len(sent) = 2

\* ---- C6 ---------------------------------------------------------------

\* C6: every generated secret nonce is consumed by at most one partial-sign
\* step, which signs for the input the nonce was generated for; no input
\* sees two nonce generations and no two generations return the same nonce.
C6_NonceOnce ==
    /\ \A p \in Positions("nonce_gen"), q \in Positions("nonce_gen") :
          p # q => /\ events[p].nonce # events[q].nonce
                   /\ events[p].input # events[q].input
    /\ \A p \in Positions("partial_sign"), q \in Positions("partial_sign") :
          p # q => events[p].nonce # events[q].nonce
    /\ \A q \in Positions("partial_sign") :
          \E p \in Positions("nonce_gen") :
             /\ p < q
             /\ events[p].nonce = events[q].nonce
             /\ events[p].input = events[q].input
    /\ Cardinality(Positions("nonce_gen")) = nonce_ctr

\* C6 witness: a cooperative refund of two inputs signed with two nonces
C6_Witness ==
    /\ DoneOp("sign_refund")
    /\ result.status = "Ok"
    /\ Cardinality(Positions("partial_sign")) = 2
    /\ nonce_ctr = 2

\* ---- C9 ---------------------------------------------------------------

\* C9: the keys are aggregated in the order [sender, receiver] exactly for
\* ReverseSubmarine and for Chain with side Claim and in the order
\* [receiver, sender] otherwise; the address, the cache of every MuSig2
\* session and the partial signature of partial_sign use that order.
C9_KeyAggOrder ==
    /\ (DoneOp("to_address") /\ result.status = "Ok") =>
          result.ret.address.output_key.internal = TableKeyOrder(swap_script)
    /\ (sign_pc # "idle" /\ loc.cache # None) =>
          /\ loc.cache.keys = TableKeyOrder(swap_script)
          /\ loc.cache.tweak.tweak_of.internal = TableKeyOrder(swap_script)
    /\ (DoneOp("partial_sign") /\ result.status = "Ok") =>
          result.ret.partial_sig.session.cache.keys = TableKeyOrder(swap_script)
    /\ (Done /\ result.status = "Ok" /\ result.ret.kind = "tx" /\ call.coop # "None") =>
          \A i \in 1..Len(result.ret.tx.input) :
             result.ret.tx.input[i].witness[1].sig.session.cache.keys =
                TableKeyOrder(swap_script)

\* C9 witness: a cooperative claim of a Chain swap with side Claim signed
\* under the order [sender, receiver], the sender being the service
C9_Witness ==
    /\ DoneOp("sign_claim")
    /\ result.status = "Ok"
    /\ call.coop = "SomeWithSig"
    /\ swap_script.swap_type = "Chain"
    /\ swap_script.side = "Claim"
    /\ IsSome(swap_script.funding_addrs)
    /\ result.ret.tx.input[1].witness[1].sig.session.cache.keys =
          <<swap_script.sender_pubkey, swap_script.receiver_pubkey>>

\* ---- C7 ---------------------------------------------------------------

\* C7: while the server keeps answering 429 or 503 the request is retried at
\* most 6 times: no more than 7 requests are issued and no more than 6
\* sleeps are taken, the seventh failing response being fatal.
C7_RetryBudget ==
    /\ requests <= RetryLimit + 1
    /\ Len(sleeps) <= RetryLimit

\* ---- C8 ---------------------------------------------------------------

\* C8: a call that returns a response got k answers of 429/503 followed by
\* one other answer, issued exactly k + 1 requests and slept 2^0, 2^1, ...,
\* 2^(k-1) seconds in that order; an answer that is neither 429 nor 503 is
\* never followed by another request.
C8_BackoffSchedule ==
    /\ \A i \in 1..(Len(responses) - 1) : is_retry_status(responses[i])
    /\ retry_pc = "returned" =>
          LET k == Len(responses) - 1
          IN /\ ~ is_retry_status(responses[k + 1])
             /\ requests = k + 1
             /\ sleeps = [i \in 1..k |-> 1000 * 2 ^ (i - 1)]
    /\ (retry_pc = "loop" /\ responses # <<>>) =>
          is_retry_status(responses[Len(responses)])

\* C8 witness: three 429 answers, then 200, with sleeps of 1, 2 and 4 seconds
C8_Witness ==
    /\ retry_pc = "returned"
    /\ responses = <<429, 429, 429, 200>>
    /\ sleeps = <<1000, 2000, 4000>>
    /\ requests = 4

\* ---- C10 --------------------------------------------------------------

\* the positions of the pushes of exactly 20 bytes in a leaf
Pushes20(leaf) == {i \in 1..Len(leaf) : leaf[i].kind = "push" /\ leaf[i].len = 20}

Min(S) == CHOOSE x \in S : \A y \in S : x <= y
Max(S) == CHOOSE x \in S : \A y \in S : x >= y

Parsed == parse_pc \in {"submarine", "reverse", "chain"}

PushesRightAfter(leaf) ==
    {i \in 2..Len(leaf) : leaf[i].kind = "push" /\ leaf[i - 1] = Op("OP_CHECKSIGVERIFY")}

\* the positions of the pushes whose nearest opcode before them is
\* OP_CHECKSIGVERIFY
PushesAfterChecksig(leaf) ==
    {i \in 2..Len(leaf) :
        /\ leaf[i].kind = "push"
        /\ \E j \in 1..(i - 1) :
              /\ leaf[j] = Op("OP_CHECKSIGVERIFY")
              /\ \A k \in (j + 1)..(i - 1) : leaf[k].kind = "push"}

\* the unsigned little-endian integer of at most four bytes, as a word
LittleEndianWord(bytes) == [i \in 1..4 |-> IF i <= Len(bytes) THEN bytes[i] ELSE 0]

\* C11 as claimed: the locktime is the little-endian integer of the push
\* that immediately follows OP_CHECKSIGVERIFY, and of no other push; the
\* push 00e1f505 gives 99999999.
C11_Original ==
    LET leaf == swap_resp.refund_leaf
    IN (Parsed /\ parsed.ok /\ \A i \in 1..Len(leaf) : Len(leaf[i].bytes) <= 4) =>
          \E i \in PushesRightAfter(leaf) :
              /\ parsed.val.locktime = LittleEndianWord(leaf[i].bytes)
              /\ leaf[i].bytes = <<0, 225, 245, 5>> =>
                    parsed.val.locktime = u32_word(99999999)

\* C11 (amended): the locktime is taken from the last push whose nearest
\* preceding opcode is OP_CHECKSIGVERIFY (pushes in between do not end the
\* search, so of two pushes after OP_CHECKSIGVERIFY the second is used); when
\* all these pushes have at most four bytes its value is the unsigned
\* little-endian integer of that push (00e1f505 gives 100000000), and when
\* there is no such push no script is built.
C11_LocktimeLast ==
    Parsed =>
        LET leaf == swap_resp.refund_leaf
            after == PushesAfterChecksig(leaf)
        IN /\ after = {} => ~ parsed.ok
           /\ (parsed.ok /\ \A i \in after : Len(leaf[i].bytes) <= 4) =>
                 /\ after # {}
                 /\ parsed.val.locktime = LittleEndianWord(leaf[Max(after)].bytes)
                 /\ leaf[Max(after)].bytes = <<0, 225, 245, 5>> =>
                       parsed.val.locktime = u32_word(100000000)

\* C11 witness: a refund leaf with two pushes after OP_CHECKSIGVERIFY, 500
\* and then 10000, parsed into locktime 10000
C11_Witness ==
    /\ parse_pc = "submarine"
    /\ parsed.ok
    /\ Cardinality(PushesAfterChecksig(swap_resp.refund_leaf)) = 2
    /\ Cardinality(PushesRightAfter(swap_resp.refund_leaf)) = 1
    /\ parsed.val.locktime = u32_word(10000)

\* ---- C12 --------------------------------------------------------------

NewDone(op) == new_pc = "done" /\ new_call.op = op

\* the call is made on a swap type the constructor does not accept
WrongTypeCall ==
    \/ NewDone("new_claim") /\ new_script.swap_type = "Submarine"
    \/ NewDone("new_refund") /\ new_script.swap_type = "ReverseSubmarine"

\* C12: new_claim on a Submarine script and new_refund on a ReverseSubmarine
\* script fail with a Protocol error whatever the address is, without any
\* discovery call to the chain client or the service and without a BtcSwapTx.
C12_WrongTypeRejected ==
    WrongTypeCall =>
        /\ new_result = ErrResult("Protocol")
        /\ contacted = <<>>

\* C12 witness: new_refund on a ReverseSubmarine script with an address
\* string that does not parse is rejected for the type, not for the address
C12_Witness ==
    /\ NewDone("new_refund")
    /\ new_script.swap_type = "ReverseSubmarine"
    /\ new_call.address = None
    /\ new_result = ErrResult("Protocol")

\* ---- C14 --------------------------------------------------------------

\* C14: on a swap type the constructor accepts, whenever the parsed address
\* is not valid for the network mapped from the config's chain, new_claim and
\* new_refund return no BtcSwapTx: the call fails (the claim: with an Address
\* error).
C14_AddressValidation ==
    (/\ new_pc = "done"
     /\ ~ WrongTypeCall
     /\ new_call.address # None
     /\ ~ is_valid_for_network(new_call.address, config_network(new_call.chain))) =>
        new_result.status # "Ok"

\* ---- C15 --------------------------------------------------------------

\* C15: when the chain-client discovery succeeds with an empty set, the
\* service is queried for the lockup transaction before the call fails.
C15_FallbackOnEmpty ==
    (/\ new_pc = "done"
     /\ ~ WrongTypeCall
     /\ new_call.address # None
     /\ is_valid_for_network(new_call.address, config_network(new_call.chain))
     /\ fetch_utxos(new_script, new_call.chain, electrum) = Ok(<<>>)) =>
        contacted = <<"electrum", "service">>

\* ---- C13 --------------------------------------------------------------

\* sign_claim or sign_refund was called on a swap type or on a kind of
\* BtcSwapTx it does not accept
WrongSignCall ==
    \/ /\ call.op = "sign_claim"
       /\ swap_script.swap_type = "Submarine" \/ swap_tx.kind = "Refund"
    \/ /\ call.op = "sign_refund"
       /\ swap_script.swap_type = "ReverseSubmarine" \/ swap_tx.kind = "Claim"

\* C13: sign_claim on a Submarine script or a Refund BtcSwapTx, and
\* sign_refund on a ReverseSubmarine script or a Claim BtcSwapTx, fail with a
\* Protocol error; no transaction is built, no nonce is generated and nothing
\* is sent to the service.
C13_WrongKindRejected ==
    (call # None /\ WrongSignCall) =>
        /\ Done
        /\ result = ErrResult("Protocol")
        /\ cur_tx = None
        /\ nonce_ctr = 0
        /\ events = <<>>
        /\ sent = <<>>

\* C13 witness: a cooperative sign_refund with a fee the funds cover, on a
\* Claim BtcSwapTx of a Chain script whose funding address matches
C13_Witness ==
    /\ DoneOp("sign_refund")
    /\ swap_script.swap_type = "Chain"
    /\ swap_tx.kind = "Claim"
    /\ call.coop = "Some"
    /\ call.fee < utxos_amount(swap_tx.utxos)
    /\ IsSome(swap_script.funding_addrs)
    /\ ~ KeyMismatch(swap_script)
    /\ result = ErrResult("Protocol")

\* ---- C16 --------------------------------------------------------------

\* the call returned a transaction
ReturnedTx == Done /\ result.status = "Ok" /\ result.ret.kind = "tx"

\* C16: a returned claim transaction has one input, the first UTXO, and one
\* output whose amount is that UTXO's value minus the fee; a returned refund
\* transaction has one input per UTXO, in order, and one output whose amount
\* is the sum of the values minus the fee.  (An amount is a u64: it is the
\* difference only if that is not negative.)
C16_InputsOutputs ==
    ReturnedTx =>
        LET tx == result.ret.tx
        IN /\ Len(tx.output) = 1
           /\ call.op = "sign_claim" =>
                 /\ Len(tx.input) = 1
                 /\ tx.input[1].previous_output = swap_tx.utxos[1][1]
                 /\ tx.output[1].value >= 0
                 /\ tx.output[1].value + call.fee = swap_tx.utxos[1][2].value
           /\ call.op = "sign_refund" =>
                 /\ Len(tx.input) = Len(swap_tx.utxos)
                 /\ \A i \in 1..Len(tx.input) :
                       tx.input[i].previous_output = swap_tx.utxos[i][1]
                 /\ tx.output[1].value >= 0
                 /\ tx.output[1].value + call.fee = utxos_amount(swap_tx.utxos)

\* ---- C17 --------------------------------------------------------------

\* the transaction sign_refund has built, once create_tx_with_fee returned
BuiltRefund ==
    IF ReturnedTx THEN [some |-> result.ret.tx]
    ELSE IF cur_tx # None THEN [some |-> cur_tx]
    ELSE None

\* C17: on a swap type and kind it accepts, sign_refund with fee f fails with
\* a Generic error, without a transaction, whenever the sum of the UTXO values
\* is at most f; whenever the sum is above f it does not fail for the funds,
\* and the output of the transaction it builds is sum - f, at least 1.
C17_RefundFunds ==
    (call # None /\ call.op = "sign_refund" /\ ~ WrongSignCall) =>
        LET sum == utxos_amount(swap_tx.utxos)
        IN /\ sum <= call.fee =>
                 /\ Done
                 /\ result = ErrResult("Generic")
                 /\ cur_tx = None
           /\ sum > call.fee =>
                 /\ result.err # "Generic"
                 /\ BuiltRefund # None =>
                       /\ BuiltRefund.some.output[1].value = sum - call.fee
                       /\ BuiltRefund.some.output[1].value >= 1

\* C17 witness: the boundary, a cooperative refund of one UTXO of 1000 with
\* fee 1000, rejected
C17_Witness ==
    /\ DoneOp("sign_refund")
    /\ ~ WrongSignCall
    /\ call.coop = "Some"
    /\ utxos_amount(swap_tx.utxos) = call.fee
    /\ result = ErrResult("Generic")

\* ---- C18 --------------------------------------------------------------

\* C18: on a swap type and kind it accepts and with a full preimage,
\* sign_claim with a fee that is at least the value of the claimed UTXO fails
\* with a Generic error and returns no transaction.
C18_ClaimFunds ==
    (/\ DoneOp("sign_claim")
     /\ ~ WrongSignCall
     /\ call.preimage # "none"
     /\ call.fee >= swap_tx.utxos[1][2].value) =>
        result = ErrResult("Generic")

\* ---- C19 --------------------------------------------------------------

\* the string is an even number of hex digits
IsHexString(str) ==
    /\ Len(str) % 2 = 0
    /\ \A i \in 1..Len(str) : is_hex_digit(str[i])

\* the number of bytes handed to from_vec by the call
InputBytes == IF pre_arg.kind = "vec" THEN Len(pre_arg.val) ELSE Len(pre_arg.val) \div 2

\* C19: from_vec, and from_str on a string that is hex, succeed exactly when
\* the input is 32 bytes long and then hold these bytes; for every other
\* length they fail with a Protocol error.
C19_PreimageLength ==
    (/\ pre_pc = "done"
     /\ \/ pre_arg.kind = "vec"
        \/ pre_arg.kind = "str" /\ IsHexString(pre_arg.val)) =>
        /\ pre_result.ok <=> InputBytes = 32
        /\ InputBytes # 32 => pre_result = Err("Protocol")
        /\ pre_result.ok => Len(pre_result.val.bytes.some) = 32

\* C19 witness: from_str on 66 hex digits (33 bytes) failed with Protocol
C19_Witness ==
    /\ pre_pc = "done"
    /\ pre_arg.kind = "str"
    /\ IsHexString(pre_arg.val)
    /\ Len(pre_arg.val) = 66
    /\ pre_result = Err("Protocol")

\* ---- C20 --------------------------------------------------------------

\* C20: a preimage p with bytes = Some(b), handed back through
\* from_vec(b) or through from_str(p.to_string()), gives a Preimage equal to
\* p: same bytes, same sha256, same hash160.
C20_RoundTrip ==
    (pre_pc = "done" /\ pre_orig # None /\ pre_arg.kind \in {"vec", "str"}) =>
        /\ pre_result = Ok(pre_orig)
        /\ pre_result.val.sha256 = sha256_hash(pre_orig.bytes.some)
        /\ pre_result.val.hash160 = hash160_hash(pre_orig.bytes.some)

\* C20 witness: a preimage with a byte below 16 went through to_string and
\* from_str
C20_Witness ==
    /\ pre_pc = "done"
    /\ pre_orig # None
    /\ pre_arg.kind = "str"
    /\ pre_orig.bytes.some[1] = 10
    /\ pre_result = Ok(pre_orig)

\* ---- C21 --------------------------------------------------------------

\* the digest handed to from_sha256_vec / from_sha256_str, when the argument
\* is 32 bytes (64 hex digits)
DigestArg ==
    IF pre_arg.kind = "sha256_vec" THEN pre_arg.val ELSE Raw(hex_pairs(pre_arg.val))

IsDigestCall ==
    /\ pre_pc = "done"
    /\ \/ pre_arg.kind = "sha256_vec" /\ byte_len(pre_arg.val) = 32
       \/ pre_arg.kind = "sha256_str" /\ IsHexString(pre_arg.val) /\ Len(pre_arg.val) = 64

\* C21: for a digest d of 32 bytes, from_sha256_vec(d) and
\* from_sha256_str(hex(d)) return a Preimage with bytes = None, sha256 = d and
\* hash160 = RIPEMD160(d); when d is the sha256 of a full preimage, both
\* digests are those of the full preimage.
C21_DigestOnly ==
    IsDigestCall =>
        /\ pre_result.ok
        /\ pre_result.val.bytes = None
        /\ pre_result.val.sha256 = DigestArg
        /\ pre_result.val.hash160 = [ripemd160 |-> DigestArg]
        /\ pre_orig # None =>
              /\ pre_result.val.sha256 = pre_orig.sha256
              /\ pre_result.val.hash160 = pre_orig.hash160

\* C21 witness: the sha256 of a full preimage went through from_sha256_vec
C21_Witness ==
    /\ IsDigestCall
    /\ pre_orig # None
    /\ pre_orig.bytes # None
    /\ pre_result.ok
    /\ pre_result.val.bytes = None
    /\ pre_result.val.hash160 = pre_orig.hash160

\* ---- C22 --------------------------------------------------------------

\* C22: a non-cooperative sign_claim with a preimage without bytes fails with
\* a Protocol error; nothing has been signed and no transaction is returned.
C22_NoPreimage ==
    (DoneOp("sign_claim") /\ call.preimage = "none" /\ call.coop = "None") =>
        /\ result = ErrResult("Protocol")
        /\ cur_tx = None
        /\ events = <<>>

\* C22 witness: the call would have succeeded with the preimage: a Claim
\* BtcSwapTx of a ReverseSubmarine script with a matching funding address
\* and a fee below the value
C22_Witness ==
    /\ DoneOp("sign_claim")
    /\ call.preimage = "none"
    /\ call.coop = "None"
    /\ ~ WrongSignCall
    /\ swap_script.swap_type = "ReverseSubmarine"
    /\ IsSome(swap_script.funding_addrs)
    /\ ~ KeyMismatch(swap_script)
    /\ call.fee < swap_tx.utxos[1][2].value
    /\ result = ErrResult("Protocol")

\* ---- C23 --------------------------------------------------------------

\* a sign_refund on an accepted swap type and kind whose funds cover the fee
\* and whose funding address, if any, matches the recomputed output key
RefundCallInOrder ==
    /\ DoneOp("sign_refund")
    /\ ~ WrongSignCall
    /\ utxos_amount(swap_tx.utxos) > call.fee
    /\ taproot_spendinfo(swap_script).ok

\* C23: a cooperative sign_refund returns a transaction with lock_time 0; a
\* non-cooperative sign_refund returns, for every locktime of the swap
\* script, a transaction whose lock_time is that locktime and whose inputs
\* all have sequence 0.
C23_RefundLockTime ==
    RefundCallInOrder =>
        /\ (call.coop # "None" /\ ReturnedTx) =>
               result.ret.tx.lock_time = LockTimeZero
        /\ call.coop = "None" =>
               /\ ReturnedTx
               /\ result.ret.tx.lock_time = swap_script.locktime
               /\ \A i \in 1..Len(result.ret.tx.input) :
                     result.ret.tx.input[i].sequence = "ZERO"

\* what does hold: every transaction that sign_refund returns has lock_time
\* 0 when cooperative, and the locktime of the swap script and sequence 0 on
\* every input otherwise
C23_ReturnedLockTime ==
    (DoneOp("sign_refund") /\ ReturnedTx) =>
        IF call.coop # "None"
        THEN result.ret.tx.lock_time = LockTimeZero
        ELSE /\ result.ret.tx.lock_time = swap_script.locktime
             /\ \A i \in 1..Len(result.ret.tx.input) :
                   result.ret.tx.input[i].sequence = "ZERO"

\* sign_refund returns no transaction, in either mode, for a locktime that
\* push_lock_time writes as an opcode OP_1 .. OP_16
C23_SmallLockTimeFails ==
    (RefundCallInOrder /\ first_short_push(refund_script(swap_script)) = None) =>
        /\ result = ErrResult("Protocol")
        /\ sent = <<>>

\* ---- C24 --------------------------------------------------------------

\* the endpoint of the table of the specification for a refund
RefundEndpoint(swap_type) ==
    CASE swap_type = "Chain" -> "get_chain_partial_sig"
      [] swap_type = "Submarine" -> "get_submarine_partial_sig"
      [] OTHER -> "none"

\* the refund transaction as it is when input k (from 0) is about to be
\* co-signed: lock_time 0, a signature on the inputs before k, the
\* placeholder on the others
RefundHexAt(tx, k) ==
    /\ tx.lock_time = LockTimeZero
    /\ Len(tx.input) = Len(swap_tx.utxos)
    /\ \A i \in 1..Len(tx.input) :
          IF i <= k
          THEN /\ Len(tx.input[i].witness) = 1
               /\ tx.input[i].witness[1].kind = "signature"
          ELSE tx.input[i].witness = stubbed_cooperative_witness

\* C24: a cooperative refund of n inputs makes exactly one request per input,
\* in the order of the inputs 0 .. n-1; each request carries the index of its
\* input, the nonce generated for that input and the transaction as it is
\* then; the requests go to get_chain_partial_sig for Chain and to
\* get_submarine_partial_sig for Submarine, never for ReverseSubmarine; a
\* failure at input k returns an error and no transaction.
C24_RefundRoundTrips ==
    (call # None /\ call.op = "sign_refund") =>
        /\ \A p \in 1..Len(sent) :
              /\ sent[p].index = p - 1
              /\ sent[p].endpoint = RefundEndpoint(swap_script.swap_type)
              /\ sent[p].endpoint # "none"
              /\ \E q \in Positions("nonce_gen") :
                    /\ events[q].input = p - 1
                    /\ events[q].nonce = sent[p].pub_nonce.pub_nonce
              /\ RefundHexAt(sent[p].tx, p - 1)
        /\ Len(sent) <= Len(swap_tx.utxos)
        /\ Len(sent) \in {input_index, input_index + 1}
        /\ call.coop = "None" => sent = <<>>
        /\ (ReturnedTx /\ call.coop # "None") => Len(sent) = Len(swap_tx.utxos)
        /\ (Done /\ ~ ReturnedTx) =>
              /\ result.status = "Err"
              /\ result.ret = NoRet

\* C24 witness: a cooperative refund of two inputs fails at the second
\* input, after the first was co-signed, and returns no transaction
C24_Witness ==
    /\ DoneOp("sign_refund")
    /\ swap_script.swap_type = "Chain"
    /\ Len(swap_tx.utxos) = 2
    /\ input_index = 1
    /\ Len(sent) = 2
    /\ sent[2].endpoint = "get_chain_partial_sig"
    /\ Len(cur_tx.input[1].witness) = 1
    /\ cur_tx.input[1].witness[1].kind = "signature"
    /\ result.status = "Err"
    /\ result.ret = NoRet

\* ---- C25 --------------------------------------------------------------

\* C25: every script chain_from_swap_resp(side, details, our_pubkey) builds,
\* with our_pubkey different from the key of the service, has swap_type
\* Chain and side Some(side), and one of its two keys is our_pubkey and the
\* other the key of the service: the caller is the sender for side Lockup
\* and the receiver for side Claim.
C25_ChainKeyRoles ==
    [][\A sd \in {"Lockup", "Claim"}, oc \in BOOLEAN :
          (ChainFromSwapResp(sd, oc) /\ parsed'.ok /\ OurKey # swap_resp.service_pubkey) =>
              /\ parsed'.val.swap_type = "Chain"
              /\ parsed'.val.side = sd
              /\ parsed'.val.sender_pubkey =
                    (IF sd = "Lockup" THEN OurKey ELSE swap_resp.service_pubkey)
              /\ parsed'.val.receiver_pubkey =
                    (IF sd = "Lockup" THEN swap_resp.service_pubkey ELSE OurKey)
              /\ Cardinality({k \in {"sender", "receiver"} :
                                 (IF k = "sender" THEN parsed'.val.sender_pubkey
                                  ELSE parsed'.val.receiver_pubkey) = OurKey}) = 1]_vars

\* C25 witness: a script built for side Claim, the caller its receiver
C25_Witness ==
    /\ parse_pc = "chain"
    /\ parsed.ok
    /\ parsed.val.side = "Claim"
    /\ parsed.val.receiver_pubkey = OurKey
    /\ parsed.val.sender_pubkey = swap_resp.service_pubkey

\* ---- C26 --------------------------------------------------------------

\* the three selectors have returned
SelAllReturned ==
    /\ sel_script_pairs # None
    /\ sel_electrum_pairs # None
    /\ sel_esplora_result # Err("none")

\* outpoint op is spent by a transaction of T that the history lists with
\* a height above 0
SpentByConfirmed(T, hist, op) ==
    \E j \in 1..Len(T) :
        /\ op \in Range(T[j].input)
        /\ HeightOf(hist, T[j].id) > 0

\* C26: on the same transactions, EsploraBitcoinClient::fetch_utxos_core,
\* ElectrumBitcoinClient::fetch_utxos_core and BtcSwapScript::fetch_utxos_core
\* return the same outpoints (with the same outputs) in the same order, and
\* none of them returns an output that a confirmed transaction spends.
C26_SelectorsAgree ==
    /\ SelAllReturned =>
          /\ sel_esplora_result.ok
          /\ sel_esplora_result.val = sel_electrum_pairs.some
          /\ sel_electrum_pairs.some = sel_script_pairs.some
    /\ sel_electrum_pairs # None =>
          \A n \in 1..Len(sel_electrum_pairs.some) :
             ~ SpentByConfirmed(sel_txs, sel_history, sel_electrum_pairs.some[n][1])
    /\ sel_esplora_result.ok =>
          \A n \in 1..Len(sel_esplora_result.val) :
             ~ SpentByConfirmed(sel_txs, sel_history, sel_esplora_result.val[n][1])
    /\ sel_script_pairs # None =>
          \A n \in 1..Len(sel_script_pairs.some) :
             ~ SpentByConfirmed(sel_txs, sel_history, sel_script_pairs.some[n][1])

\* C26 witness: the three selectors returned the same non-empty list, which
\* holds an output spent from the mempool and leaves out an output of the
\* script that a confirmed transaction spends
C26_Witness ==
    /\ SelAllReturned
    /\ sel_esplora_result.ok
    /\ sel_esplora_result.val = sel_electrum_pairs.some
    /\ \E n \in 1..Len(sel_esplora_result.val), j \in 1..Len(sel_txs) :
          /\ sel_esplora_result.val[n][1] \in Range(sel_txs[j].input)
          /\ ~ sel_esplora_txs[j].status.confirmed
    /\ \E i \in 1..Len(sel_txs) : \E k \in 1..Len(sel_txs[i].output) :
          /\ sel_txs[i].output[k].script_pubkey = sel_spk
          /\ SpentByConfirmed(sel_txs, sel_history, OutPoint(sel_txs[i].id, k - 1))

\* ---- C28 --------------------------------------------------------------

\* default(chain, regtest_url) has returned
DefaultBuilt == cfg_pc \in {"built", "asked"} /\ cfg_call = "default"

\* C28: default(chain, regtest_url) of either client fails for
\* BitcoinRegtest and LiquidRegtest without a url; otherwise network() of
\* the config it returns is the requested chain, except for LiquidRegtest,
\* for which it is BitcoinTestnet.
C28_DefaultChainTag ==
    DefaultBuilt =>
        IF cfg_chain \in {"BitcoinRegtest", "LiquidRegtest"} /\ cfg_url = None
        THEN ~ cfg_result.ok
        ELSE /\ cfg_result.ok
             /\ network(cfg_result.val) =
                   (IF cfg_chain = "LiquidRegtest" THEN "BitcoinTestnet" ELSE cfg_chain)
             /\ cfg_pc = "asked" => cfg_network = [some |-> network(cfg_result.val)]

\* what does hold: both regtest chains are tagged BitcoinTestnet, the four
\* other chains keep their tag, and the regtest url is the url of the config
C28_RegtestTag ==
    DefaultBuilt =>
        IF cfg_chain \in {"BitcoinRegtest", "LiquidRegtest"}
        THEN IF cfg_url = None
             THEN cfg_result = Err(IF cfg_client = "electrum" THEN "Electrum" ELSE "Esplora")
             ELSE /\ cfg_result.ok
                  /\ network(cfg_result.val) = "BitcoinTestnet"
                  /\ cfg_result.val.url = cfg_url.some
        ELSE /\ cfg_result.ok
             /\ network(cfg_result.val) = cfg_chain

\* ---- C27 --------------------------------------------------------------

\* the kinds of the items of a witness, in order
WitnessKinds(witness) == [n \in 1..Len(witness) |-> witness[n].kind]

\* C27: the transaction of a successful non-cooperative sign_claim has one
\* input with sequence 0 and the witness [signature, preimage, claim leaf,
\* control block of the claim leaf]; the transaction of a successful
\* cooperative sign_claim has one input with sequence ENABLE_RBF_NO_LOCKTIME
\* and a witness of one item, a signature of 64 bytes.
C27_ClaimWitness ==
    (DoneOp("sign_claim") /\ ReturnedTx) =>
        LET tx == result.ret.tx
        IN /\ Len(tx.input) = 1
           /\ IF call.coop = "None"
              THEN /\ tx.input[1].sequence = "ZERO"
                   /\ WitnessKinds(tx.input[1].witness) =
                         <<"signature", "preimage", "claim_leaf",
                           "control_block(claim_leaf)">>
                   /\ tx.input[1].witness[1].len = 64
                   /\ tx.input[1].witness[1].sig.schnorr_by = OurKey
                   /\ tx.input[1].witness[2].len = 32
              ELSE /\ tx.input[1].sequence = "ENABLE_RBF_NO_LOCKTIME"
                   /\ WitnessKinds(tx.input[1].witness) = <<"signature">>
                   /\ tx.input[1].witness[1].len = 64

\* C27 witness: a cooperative claim was returned
C27_Witness ==
    /\ DoneOp("sign_claim")
    /\ ReturnedTx
    /\ call.coop = "Some"
    /\ Cardinality(Positions("witness")) = 1
    /\ Len(result.ret.tx.input[1].witness) = 1
    /\ result.ret.tx.input[1].sequence = "ENABLE_RBF_NO_LOCKTIME"

\* ---- C29 --------------------------------------------------------------

\* the transaction create_claim / create_refund built for the call, the
\* one whose vsize create_tx_with_fee sees
BuiltForFee ==
    IF call.op = "sign_claim"
    THEN create_claim(swap_tx, swap_script, OurKey, call.preimage, call.fee,
                      call.coop # "None", FALSE)
    ELSE create_refund(swap_tx, swap_script, OurKey, call.fee, call.coop # "None")

\* C29: no transaction returned by sign_claim or sign_refund holds the
\* placeholder of 64 zero bytes; every input of a returned cooperative
\* transaction carries one aggregated signature that verifies against the
\* Taproot output key for the key-spend sighash of that input; the signature
\* is as long as the placeholder, and the vsize of the returned transaction
\* is the vsize of the transaction built with the placeholders.
C29_NoPlaceholder ==
    (ReturnedTx /\ call.op \in {"sign_claim", "sign_refund"}) =>
        LET tx == result.ret.tx
        IN /\ \A i \in 1..Len(tx.input) :
                 /\ tx.input[i].witness # stubbed_cooperative_witness
                 /\ \A n \in 1..Len(tx.input[i].witness) :
                       tx.input[i].witness[n].kind # "zeros"
           /\ call.coop # "None" =>
                 /\ \A i \in 1..Len(tx.input) :
                       /\ Len(tx.input[i].witness) = 1
                       /\ tx.input[i].witness[1].kind = "signature"
                       /\ tx.input[i].witness[1].len = stubbed_cooperative_witness[1].len
                       /\ tx.input[i].witness[1].len = 64
                       /\ verify_schnorr(tx.input[i].witness[1].sig,
                             taproot_key_spend_signature_hash(tx, i - 1, prevouts_all),
                             taproot_spendinfo(swap_script).val.output_key)
                       /\ \E p \in Positions("verify_aggregate") : events[p].input = i - 1
                 /\ BuiltForFee.ok
                 /\ \A i \in 1..Len(BuiltForFee.val.input) :
                       BuiltForFee.val.input[i].witness = stubbed_cooperative_witness
                 /\ vsize(BuiltForFee.val) = vsize(tx)

\* C29 witness: a cooperative refund of two inputs was returned, both
\* placeholders replaced
C29_Witness ==
    /\ DoneOp("sign_refund")
    /\ ReturnedTx
    /\ call.coop = "Some"
    /\ Len(result.ret.tx.input) = 2
    /\ Cardinality(Positions("witness")) = 2
    /\ BuiltForFee.val.input[2].witness = stubbed_cooperative_witness
    /\ result.ret.tx.input[2].witness[1].kind = "signature"

\* ---- C30 --------------------------------------------------------------

\* the script is one that submarine_from_swap_resp, reverse_from_swap_resp
\* or chain_from_swap_resp builds for the caller's key OurKey and the
\* service's key BoltzKey
BuiltByConstructor(s) ==
    \/ /\ s.swap_type = "Submarine" /\ s.side = "None"
       /\ s.sender_pubkey = OurKey /\ s.receiver_pubkey = BoltzKey
    \/ /\ s.swap_type = "ReverseSubmarine" /\ s.side = "None"
       /\ s.sender_pubkey = BoltzKey /\ s.receiver_pubkey = OurKey
    \/ /\ s.swap_type = "Chain" /\ s.side = "Lockup"
       /\ s.sender_pubkey = OurKey /\ s.receiver_pubkey = BoltzKey
    \/ /\ s.swap_type = "Chain" /\ s.side = "Claim"
       /\ s.sender_pubkey = BoltzKey /\ s.receiver_pubkey = OurKey

\* C30: whenever sign_claim or sign_refund, on a script built by one of the
\* three constructors and with a fee the funds cover, verifies the partial
\* signature of the service, the key it verifies against is the key of the
\* service and not the caller's.
C30_PeerKey ==
    (/\ call # None
     /\ call.op \in {"sign_claim", "sign_refund"}
     /\ BuiltByConstructor(swap_script)
     /\ call.fee < swap_tx.utxos[1][2].value
     /\ Positions("verify_peer") # {}) =>
        /\ boltz_verify_key = BoltzKey
        /\ boltz_verify_key # OurKey

\* what does hold: the key is the caller's own exactly for a claim on a
\* Chain script of side Lockup and for a refund on a Chain script of side
\* Claim, and then the call fails with a Protocol error even when the
\* service's partial signature is valid
C30_OwnKeyCases ==
    (/\ call # None
     /\ call.op \in {"sign_claim", "sign_refund"}
     /\ BuiltByConstructor(swap_script)
     /\ Positions("verify_peer") # {}) =>
        /\ boltz_verify_key = OurKey <=>
              /\ swap_script.swap_type = "Chain"
              /\ swap_script.side = (IF IsClaim THEN "Lockup" ELSE "Claim")
        /\ boltz_verify_key = OurKey => result = ErrResult("Protocol")

====
